---------------------------- MODULE Spec2Model ----------------------------
(***************************************************************************)
(* Model of the test-result aggregation and artifact-capture pipeline of   *)
(* the Playwright suite: the retry helper (WaitUtils.waitWithRetry), the   *)
(* custom HTML reporter (CustomHtmlReporter, both variants), the failure   *)
(* report utilities (ReportUtils, both variants) and the page fixture.     *)
(*                                                                         *)
(* Each component has its own specifications: SpecRetry (waitWithRetry),   *)
(* SpecReporter (a run of up to MaxResults results), SpecRender (one       *)
(* result with any short title and message), SpecScenario (runs of three   *)
(* given tests), SpecAttach (one result with attachments), SpecRuns        *)
(* (consecutive runs under a clock), SpecCapture (a direct call of         *)
(* createFailureReport), SpecFixture (one test through the page fixture),  *)
(* SpecTrace (startTraceRecording and stopTraceRecording), SpecWorkers     *)
(* (artifacts written by two workers), SpecListeners and SpecListenersFair *)
(* (the console and network listeners), SpecStable (waitForElementStable)  *)
(* and SpecGoto (the page.goto wrapper of retryTest). The variables of the *)
(* other components keep their initial value in it.                        *)
(***************************************************************************)
EXTENDS Integers, Sequences, FiniteSets, TLC

VARIABLES
  \* ---- WaitUtils.waitWithRetry (one call) ----
  wpc,          \* "idle" | "attempt" | "delay" | "exhausted" | "returned" | "thrown"
  wArgs,        \* the arguments of the call
  wMaxRetries,  \* the maxRetries parameter after defaulting
  wDelay,       \* the retryDelay parameter after defaulting
  wI,           \* the loop variable i
  wLastError,   \* the local lastError
  wOutcomes,    \* what each invocation of operation() did, in order
  wWaits,       \* the delays waited so far, in order
  wResult       \* what the call returned or threw

  ,
  \* ---- CustomHtmlReporter (the current run of the reporter) ----
  variant,      \* "enhanced" | "core": which CustomHtmlReporter class is loaded
  rphase,       \* "NotStarted" | "Collecting" | "Done": the runner's protocol
  testResults,  \* this.testResults
  startTime,    \* this.startTime
  endTime,      \* this.endTime
  now,          \* the clock read by `new Date()`
  reportFile,   \* the content of custom-report.html, or NoFile
  rconsole,     \* what the reporter printed with console.log, in order
  rthrown,      \* TRUE once onEnd has thrown
  nodeEnv,      \* process.env.NODE_ENV
  reports       \* the last two contents given to custom-report.html, with their runs

  ,
  \* ---- ReportUtils and the page fixture (one test execution) ----
  uvariant,     \* "enhanced" | "core": which ReportUtils class is loaded
  pageOpen,     \* FALSE once the page was closed
  traceActive,  \* TRUE while a trace recording is started on the context
  testInfo,     \* the TestInfo of the test: title, status, attachments
  files,        \* the files written under test-results/, in order
  capture,      \* the last call of createFailureReport, or NoCapture
  fpc,          \* where the page fixture is
  testError,    \* the fixture's local testError
  fconsole,     \* what the fixture's teardown made the utilities print
  fOutcome,     \* how the fixture ended: "pending", "resolved" or the error
  traceStop     \* the last call of stopTraceRecording, or NoStop

  ,
  \* ---- retryTest's page.goto wrapper (one call) ----
  gpc,          \* where the call is
  gArgs,        \* the arguments of the call: url, options
  gI,           \* the loop variable i
  gLastError,   \* the local lastError
  gOutcomes,    \* what each originalGoto() did, in order
  gWaits,       \* the delays waited so far, in order
  gResult       \* what the call returned or threw

  ,
  \* ---- captureConsoleLogs and captureNetworkRequests (one page) ----
  lpc,          \* "idle" | "listening" | "closed" | "exited"
  lRegistered,  \* the instant the listeners were registered
  logs,         \* the closure's array `logs`
  requests,     \* the closure's array `requests`
  lArrived,     \* the events the page emitted, in order of arrival
  lfiles        \* the writes of log files attempted, in order

  ,
  \* ---- WaitUtils.waitForElementStable (one call) ----
  spc,          \* "idle" | "test" | "wait" | "returned" | "thrown"
  sTimeout,     \* the timeout parameter after defaulting
  sElapsed,     \* Date.now() - startTime
  lastPosition, \* the local lastPosition
  stableCount,  \* the local stableCount
  sPolls,       \* what each locator.boundingBox() gave, in order
  sResult       \* what the call returned or threw

wvars == <<wpc, wArgs, wMaxRetries, wDelay, wI, wLastError, wOutcomes, wWaits, wResult>>

rvars == <<variant, rphase, testResults, startTime, endTime, now, reportFile,
           rconsole, rthrown, nodeEnv, reports>>

fvars == <<uvariant, pageOpen, traceActive, testInfo, files, capture, fpc,
           testError, fconsole, fOutcome, traceStop>>

gvars == <<gpc, gArgs, gI, gLastError, gOutcomes, gWaits, gResult>>

lvars == <<lpc, lRegistered, logs, requests, lArrived, lfiles>>

svars == <<spc, sTimeout, sElapsed, lastPosition, stableCount, sPolls, sResult>>

\* the variables of the smaller helpers
hvars == <<gvars, lvars, svars>>

vars == <<wvars, rvars, fvars, hvars>>

\* the variables each component leaves alone
notRetry == <<rvars, fvars, hvars>>
notReporter == <<wvars, fvars, hvars>>
notFixture == <<wvars, rvars, hvars>>
notGoto == <<wvars, rvars, fvars, lvars, svars>>
notListeners == <<wvars, rvars, fvars, gvars, svars>>
notStable == <<wvars, rvars, fvars, gvars, lvars>>

-----------------------------------------------------------------------------
(* Bounds of the model *)

\* largest explicit maxRetries argument tried
MaxRetriesArg == 4
\* most test results reported in one run (SpecReporter, SpecScenario)
MaxResults == 3
\* most attachments of one test result (SpecAttach)
MaxAttachments == 2
\* the clock runs from 0 to MaxTicks half seconds (SpecRuns, SpecTrace)
MaxTicks == 2
\* most calls of startTraceRecording before the stop (SpecTrace)
MaxStarts == 2
\* most artifacts the workers write (SpecWorkers)
MaxCaptures == 2
\* most events a page emits while it is listened to (SpecListeners)
MaxEvents == 3
\* most polls of the element's bounding box in a call (SpecStable)
MaxPolls == 5
\* longest test title rendered (SpecRender)
MaxTitleLen == 3
\* longest error message rendered (SpecRender)
MaxMessageLen == 1

(* Program constants *)

\* waitWithRetry(operation, maxRetries = 3, ...)
DefaultMaxRetries == 3
\* waitWithRetry(..., retryDelay = 1000)
DefaultRetryDelay == 1000
\* waitForElementStable: the default timeout, the stable checks required, and
\* the wait between polls
DefaultStableTimeout == 30000
RequiredStableChecks == 3
PollInterval == 100

\* an omitted argument, an unset local
Undefined == <<"undefined">>

-----------------------------------------------------------------------------
(* The components at rest *)

\* an optional string (a missing property, an undefined value)
Absent == [present |-> FALSE, chars |-> <<>>]
Some(chars) == [present |-> TRUE, chars |-> chars]

\* an argument of a call: omitted, or given with a value
Omitted == [given |-> FALSE, value |-> 0]
Given(v) == [given |-> TRUE, value |-> v]

\* no file
NoFile == [written |-> FALSE]

\* no call of the page.goto wrapper is in progress
IdleGoto ==
  /\ gpc = "idle"
  /\ gArgs = [url |-> "", options |-> Omitted]
  /\ gI = 0
  /\ gLastError = Undefined
  /\ gOutcomes = <<>>
  /\ gWaits = <<>>
  /\ gResult = Undefined

\* no listener is registered on the page
IdleListeners ==
  /\ lpc = "idle"
  /\ lRegistered = 0
  /\ logs = <<>>
  /\ requests = <<>>
  /\ lArrived = <<>>
  /\ lfiles = <<>>

\* no position was sampled
NoPosition == [known |-> FALSE, x |-> 0, y |-> 0]

\* no call of waitForElementStable is in progress
IdleStable ==
  /\ spc = "idle"
  /\ sTimeout = 0
  /\ sElapsed = 0
  /\ lastPosition = NoPosition
  /\ stableCount = 0
  /\ sPolls = <<>>
  /\ sResult = Undefined

\* the smaller helpers at rest
IdleHelpers == IdleGoto /\ IdleListeners /\ IdleStable

\* no call of waitWithRetry is in progress
IdleRetry ==
  /\ wpc = "idle"
  /\ wArgs = [maxRetries |-> Omitted, retryDelay |-> Omitted]
  /\ wMaxRetries = 0
  /\ wDelay = 0
  /\ wI = 0
  /\ wLastError = Undefined
  /\ wOutcomes = <<>>
  /\ wWaits = <<>>
  /\ wResult = Undefined

\* a reporter that was constructed: the field initialisers and the constructor
ConstructedReporter ==
  /\ now = 0
  /\ rphase = "NotStarted"
  /\ testResults = <<>>
  /\ startTime = now
  /\ endTime = now
  /\ reportFile = NoFile
  /\ rconsole = <<>>
  /\ rthrown = FALSE
  /\ reports = <<>>

\* the reporter of a specification that is not about it
IdleReporter == variant = "enhanced" /\ nodeEnv = Absent /\ ConstructedReporter

\* createFailureReport was not called
NoCapture == [called |-> FALSE]

\* stopTraceRecording was not called
NoStop == [called |-> FALSE]

\* the title of the test the fixture runs
FixtureTitle == <<"a", " ", "b">>

\* a test that has not started: a fresh page, no trace, nothing written
FreshTest ==
  /\ pageOpen = TRUE
  /\ traceActive = FALSE
  /\ testInfo = [title |-> FixtureTitle, file |-> <<"t", "/", "f">>,
                 status |-> "passed", duration |-> 0, retry |-> 0,
                 workerIndex |-> 0, project |-> "chromium",
                 errors |-> <<>>, attachments |-> <<>>]
  /\ files = <<>>
  /\ capture = NoCapture
  /\ fpc = "setup"
  /\ testError = "none"
  /\ fconsole = <<>>
  /\ fOutcome = "pending"
  /\ traceStop = NoStop

\* the fixture of a specification that is not about it
IdleFixture == uvariant = "enhanced" /\ FreshTest

-----------------------------------------------------------------------------
(* Text: a string is the sequence of its characters *)

\* the characters test titles and error messages are drawn from: the five
\* characters escapeHtml replaces, and a letter
Chars == {"&", "<", ">", "\"", "'", "a"}

\* the strings of at most n characters
Strings(n) == UNION {[1..k -> Chars] : k \in 0..n}

\* `value || ''`
OrEmpty(opt) == IF opt.present THEN opt.chars ELSE <<>>

RECURSIVE ReplaceAll(_, _, _)
\* text.replace(/c/g, replacement) for a one-character pattern c
ReplaceAll(text, c, replacement) ==
  IF text = <<>> THEN <<>>
  ELSE (IF Head(text) = c THEN replacement ELSE <<Head(text)>>)
         \o ReplaceAll(Tail(text), c, replacement)

\* the replacement strings of escapeHtml
AmpEntity == <<"&", "a", "m", "p", ";">>
LtEntity == <<"&", "l", "t", ";">>
GtEntity == <<"&", "g", "t", ";">>
QuotEntity == <<"&", "q", "u", "o", "t", ";">>
AposEntity == <<"&", "#", "3", "9", ";">>

\* (mutation of EscapeHtml: the ampersand is replaced last, after the entities
\* of the other characters were inserted)
EscapeHtmlAmpLast(text) ==
  LET a == ReplaceAll(text, "<", LtEntity)
      b == ReplaceAll(a, ">", GtEntity)
      c == ReplaceAll(b, "\"", QuotEntity)
      d == ReplaceAll(c, "'", AposEntity)
  IN  ReplaceAll(d, "&", AmpEntity)

\* CustomHtmlReporter.escapeHtml: five replacements, one after the other
EscapeHtml(text) ==
  LET a == ReplaceAll(text, "&", AmpEntity)
      b == ReplaceAll(a, "<", LtEntity)
      c == ReplaceAll(b, ">", GtEntity)
      d == ReplaceAll(c, "\"", QuotEntity)
  IN  ReplaceAll(d, "'", AposEntity)

\* the decimal digits
Digit(d) == <<"0", "1", "2", "3", "4", "5", "6", "7", "8", "9">>[d + 1]

RECURSIVE Decimal(_)
\* the decimal representation of a natural number (number to string)
Decimal(n) == IF n < 10 THEN <<Digit(n)>> ELSE Decimal(n \div 10) \o <<Digit(n % 10)>>

\* (mutation of ToFixed1: the digits after the first decimal are cut off)
ToFixed1Truncating(num, den) ==
  LET tenths == (1000 * num) \div den
  IN  Decimal(tenths \div 10) \o <<".">> \o <<Digit(tenths % 10)>>

\* ((num / den) * 100).toFixed(1): the percentage rounded to the nearest tenth
\* (a tie goes up), written with one digit after the point
ToFixed1(num, den) ==
  LET tenths == (2000 * num + den) \div (2 * den)
  IN  Decimal(tenths \div 10) \o <<".">> \o <<Digit(tenths % 10)>>

-----------------------------------------------------------------------------
(* CustomHtmlReporter *)

\* TestResult.status as the runner reports it
Statuses == {"passed", "failed", "skipped", "timedOut", "interrupted"}

\* result.error of a result without error
NoError == [present |-> FALSE, message |-> Absent, stack |-> Absent]
\* result.error of a failure: the stack starts with the message
ErrorOf(message) ==
  [present |-> TRUE, message |-> message,
   stack |-> IF message.present THEN Some(message.chars \o <<"a">>) ELSE Absent]

\* the file of every test case
TestFile == <<"t", "/", "f">>

\* a test case and one result of it, as the runner hands them to onTestEnd
Outcome(title, status, retry, message, attachments) ==
  [test |-> [title |-> title, file |-> TestFile],
   result |-> [status |-> status,
               duration |-> IF status = "skipped" THEN 0 ELSE 100,
               retry |-> retry,
               error |-> IF status \in {"failed", "timedOut"}
                           THEN ErrorOf(message) ELSE NoError,
               attachments |-> attachments]]

\* (mutation of CountStatus: the comparison is inverted)
CountStatusOthers(results, status) ==
  Cardinality({i \in 1..Len(results) : results[i].result.status # status})

\* the number of results in `results` whose status is `status`
\* (this.testResults.filter(r => r.result.status === status).length)
CountStatus(results, status) ==
  Cardinality({i \in 1..Len(results) : results[i].result.status = status})

\* (mutation of PassRate: the digits after the first decimal are cut off)
PassRateTruncating(passedTests, totalTests) ==
  IF totalTests > 0 THEN ToFixed1Truncating(passedTests, totalTests) ELSE <<"0">>

\* const passRate = totalTests > 0 ? ((passedTests / totalTests) * 100).toFixed(1) : '0'
PassRate(passedTests, totalTests) ==
  IF totalTests > 0 THEN ToFixed1(passedTests, totalTests) ELSE <<"0">>

\* status.toUpperCase(), msg.type().toUpperCase()
ToUpperCase(status) ==
  CASE status = "passed" -> "PASSED"
    [] status = "failed" -> "FAILED"
    [] status = "skipped" -> "SKIPPED"
    [] status = "timedOut" -> "TIMEDOUT"
    [] status = "interrupted" -> "INTERRUPTED"
    [] status = "log" -> "LOG"
    [] status = "error" -> "ERROR"

RECURSIVE Basename(_)
\* path.basename(file): what follows the last separator
Basename(file) ==
  IF \A i \in 1..Len(file) : file[i] # "/" THEN file ELSE Basename(Tail(file))

\* (mutation of Truthy: the test is `!== undefined`)
TruthyWhenDefined(opt) == opt.present

\* `attachment.path ? ... : ''`: undefined and the empty string are falsy
Truthy(opt) == opt.present /\ opt.chars # <<>>

\* (mutation of StatusClass: a timed out test is shown as failed)
StatusClassTimedOutAsFailed(status) ==
  IF status = "passed" THEN "passed"
  ELSE IF status \in {"failed", "timedOut"} THEN "failed"
  ELSE IF status = "skipped" THEN "skipped" ELSE "flaky"

\* the statusClass of generateTestResultsHtml
StatusClass(status) ==
  IF status = "passed" THEN "passed"
  ELSE IF status = "failed" THEN "failed"
  ELSE IF status = "skipped" THEN "skipped" ELSE "flaky"

\* the statusIcon of generateTestResultsHtml
StatusIcon(status) ==
  IF status = "passed" THEN "check"
  ELSE IF status = "failed" THEN "cross"
  ELSE IF status = "skipped" THEN "next" ELSE "again"

\* the markup of one attachment: the name, and a link when the path is truthy
AttachmentHtml(attachment) ==
  [name |-> attachment.name,
   link |-> Truthy(attachment.path),
   href |-> IF Truthy(attachment.path) THEN attachment.path.chars ELSE <<>>]

\* generateTestResultsHtml, one element of the map: the text put in each hole
\* of the template of a test result
TestResultHtml(r) ==
  [class |-> StatusClass(r.result.status),
   dataStatus |-> r.result.status,
   icon |-> StatusIcon(r.result.status),
   title |-> EscapeHtml(r.test.title),
   file |-> EscapeHtml(r.test.file),
   duration |-> r.result.duration,
   showRetry |-> r.result.retry > 0,
   retry |-> r.result.retry,
   hasError |-> r.result.error.present,
   errorMessage |-> IF r.result.error.present
                      THEN EscapeHtml(OrEmpty(r.result.error.message)) ELSE <<>>,
   errorStack |-> IF r.result.error.present
                    THEN EscapeHtml(OrEmpty(r.result.error.stack)) ELSE <<>>,
   hasAttachments |-> Len(r.result.attachments) > 0,
   attachments |-> [i \in 1..Len(r.result.attachments) |->
                      AttachmentHtml(r.result.attachments[i])]]

\* generateTestResultsHtml: the results in the order of this.testResults
GenerateTestResultsHtml(results) ==
  [i \in 1..Len(results) |-> TestResultHtml(results[i])]

\* the core variant's template of a test result (the map in generateHtmlReport)
CoreTestItemHtml(r) ==
  [class |-> r.result.status,
   title |-> r.test.title,
   statusText |-> ToUpperCase(r.result.status),
   duration |-> r.result.duration,
   file |-> Basename(r.test.file)]

\* Date.toLocaleString(): the text names the second of the instant (in the
\* locale and time zone of the process)
ToLocaleString(t) == [second |-> t \div 1000]

\* Date.toISOString(): the text names the millisecond of the instant
ToISOString(t) == [millisecond |-> t]

\* formatDuration(ms)
FormatDuration(ms) ==
  LET seconds == ms \div 1000
      minutes == seconds \div 60
      hours == minutes \div 60
  IN  IF hours > 0
        THEN Decimal(hours) \o <<"h", " ">> \o Decimal(minutes % 60) \o <<"m", " ">>
               \o Decimal(seconds % 60) \o <<"s">>
      ELSE IF minutes > 0
        THEN Decimal(minutes) \o <<"m", " ">> \o Decimal(seconds % 60) \o <<"s">>
      ELSE Decimal(seconds) \o <<"s">>

\* `${Math.round(duration / 1000)}s` of the core variant
RoundedSeconds(ms) == Decimal((ms + 500) \div 1000) \o <<"s">>

\* the text 'development'
Development == <<"d", "e", "v", "e", "l", "o", "p", "m", "e", "n", "t">>

\* `process.env.NODE_ENV || 'development'`
Environment == IF Truthy(nodeEnv) THEN nodeEnv.chars ELSE Development

\* generateHtmlReport of the enhanced variant: the text put in each hole of
\* the document template
GenerateHtmlReport(results, start, end) ==
  LET totalTests == Len(results)
      passedTests == CountStatus(results, "passed")
      failedTests == CountStatus(results, "failed")
      skippedTests == CountStatus(results, "skipped")
      flakyTests == CountStatus(results, "flaky")
  IN  [totalTests |-> totalTests,
       passedTests |-> passedTests,
       failedTests |-> failedTests,
       skippedTests |-> skippedTests,
       flakyTests |-> flakyTests,
       passRate |-> PassRate(passedTests, totalTests),
       generatedOn |-> ToLocaleString(end),
       startTime |-> ToLocaleString(start),
       endTime |-> ToLocaleString(end),
       duration |-> FormatDuration(end - start),
       environment |-> Environment,
       items |-> GenerateTestResultsHtml(results)]

\* generateHtmlReport of the core variant
GenerateHtmlReportCore(results, start, end) ==
  LET totalTests == Len(results)
      passedTests == CountStatus(results, "passed")
      failedTests == CountStatus(results, "failed")
      skippedTests == CountStatus(results, "skipped")
  IN  [totalTests |-> totalTests,
       passedTests |-> passedTests,
       failedTests |-> failedTests,
       skippedTests |-> skippedTests,
       passRate |-> PassRate(passedTests, totalTests),
       generatedOn |-> ToLocaleString(end),
       duration |-> RoundedSeconds(end - start),
       generatedAt |-> ToISOString(end),
       items |-> [i \in 1..Len(results) |-> CoreTestItemHtml(results[i])]]

\* onBegin(config, suite); the runner calls it once, before any onTestEnd
OnBegin ==
  /\ rphase = "NotStarted"
  /\ startTime' = now
  /\ rconsole' = Append(rconsole, <<"start">>)
  /\ rphase' = "Collecting"
  /\ UNCHANGED <<variant, testResults, endTime, now, reportFile, rthrown, nodeEnv, reports>>
  /\ UNCHANGED notReporter

\* the emoji onTestEnd prints
StatusEmoji(status) ==
  IF status = "passed" THEN "check" ELSE IF status = "failed" THEN "cross" ELSE "warning"

\* (mutation of Recorded: a later result of a test replaces its earlier ones)
RecordedLatestOnly(results, outcome) ==
  Append(SelectSeq(results, LAMBDA r : r.test.title # outcome.test.title), outcome)

\* this.testResults.push({ test, result })
Recorded(results, outcome) == Append(results, outcome)

\* the document the variant's generateHtmlReport builds
ReportOf(v, results, start, end) ==
  IF v = "enhanced" THEN GenerateHtmlReport(results, start, end)
                    ELSE GenerateHtmlReportCore(results, start, end)

\* (mutation of OnTestEnd: the report file is rewritten after every result)
OnTestEndWritesReport(outcome) ==
  /\ rphase = "Collecting"
  /\ testResults' = Recorded(testResults, outcome)
  /\ rconsole' = Append(rconsole, <<"test", StatusEmoji(outcome.result.status),
                                    outcome.test.title>>)
  /\ reportFile' = [written |-> TRUE,
                    html |-> ReportOf(variant, testResults', startTime, now)]
  /\ UNCHANGED <<variant, rphase, startTime, endTime, now, rthrown, nodeEnv, reports>>
  /\ UNCHANGED notReporter

\* onTestEnd(test, result); the runner calls it between onBegin and onEnd
OnTestEnd(outcome) ==
  /\ rphase = "Collecting"
  /\ testResults' = Recorded(testResults, outcome)
  /\ rconsole' = Append(rconsole, <<"test", StatusEmoji(outcome.result.status),
                                    outcome.test.title>>)
  /\ UNCHANGED <<variant, rphase, startTime, endTime, now, reportFile, rthrown, nodeEnv, reports>>
  /\ UNCHANGED notReporter

\* a content given to custom-report.html, with the run that wrote it
RunOf(end, html) ==
  [variant |-> variant, outcomes |-> testResults, startTime |-> startTime,
   endTime |-> end, nodeEnv |-> nodeEnv, html |-> html]

\* the history of the file after one more write: its content and the one
\* that content replaced
Rewritten(history, run) ==
  IF history = <<>> THEN <<run>> ELSE <<history[Len(history)], run>>

\* (mutation of OnEnd: the document is appended to the file, after the
\* entries the file already has)
OnEndAppendsToFile ==
  /\ rphase = "Collecting"
  /\ endTime' = now
  /\ \E writes \in BOOLEAN :
       IF writes
         THEN /\ reportFile' =
                   [written |-> TRUE,
                    html |-> [ReportOf(variant, testResults, startTime, endTime')
                                EXCEPT !.items = (IF reportFile.written
                                                    THEN reportFile.html.items ELSE <<>>) \o @]]
              /\ reports' = Rewritten(reports, RunOf(endTime', reportFile'.html))
              /\ rconsole' = Append(rconsole, <<"generated">>)
              /\ rthrown' = FALSE
         ELSE /\ rthrown' = TRUE
              /\ UNCHANGED <<reportFile, rconsole, reports>>
  /\ rphase' = "Done"
  /\ UNCHANGED <<variant, testResults, startTime, now, nodeEnv>>
  /\ UNCHANGED notReporter

\* (mutation of OnEnd: a failure of the write is swallowed and the success
\* line is printed all the same)
OnEndSwallowsFailure ==
  /\ rphase = "Collecting"
  /\ endTime' = now
  /\ \E writes \in BOOLEAN :
       /\ reportFile' = IF writes
                          THEN [written |-> TRUE,
                                html |-> ReportOf(variant, testResults, startTime, endTime')]
                          ELSE reportFile
       /\ reports' = IF writes THEN Rewritten(reports, RunOf(endTime', reportFile'.html))
                               ELSE reports
       /\ rconsole' = Append(rconsole, <<"generated">>)
       /\ rthrown' = FALSE
  /\ rphase' = "Done"
  /\ UNCHANGED <<variant, testResults, startTime, now, nodeEnv>>
  /\ UNCHANGED notReporter

\* onEnd(result), called once by the runner: the report is generated and written; fs.writeFileSync either
\* writes the file or throws, and then onEnd throws before its console.log
OnEnd ==
  /\ rphase = "Collecting"
  /\ endTime' = now
  /\ \E writes \in BOOLEAN :
       IF writes
         THEN /\ reportFile' =
                   [written |-> TRUE,
                    html |-> ReportOf(variant, testResults, startTime, endTime')]
              /\ reports' = Rewritten(reports, RunOf(endTime', reportFile'.html))
              /\ rconsole' = Append(rconsole, <<"generated">>)
              /\ rthrown' = FALSE
         ELSE /\ rthrown' = TRUE
              /\ UNCHANGED <<reportFile, rconsole, reports>>
  /\ rphase' = "Done"
  /\ UNCHANGED <<variant, testResults, startTime, now, nodeEnv>>
  /\ UNCHANGED notReporter

\* the number of results already recorded for the test with this title: the
\* retry index of its next result
RetryIndex(title) ==
  Cardinality({i \in 1..Len(testResults) : testResults[i].test.title = title})

\* test titles of SpecReporter
ReporterTitles == {<<"a">>, <<"<">>}

\* the runner reports the end of a test (SpecReporter)
ReportTestEnd ==
  /\ Len(testResults) < MaxResults
  /\ \E title \in ReporterTitles, status \in Statuses :
       OnTestEnd(Outcome(title, status, RetryIndex(title), Some(<<"a">>), <<>>))

InitReporter ==
  /\ variant \in {"enhanced", "core"}
  /\ nodeEnv = Absent
  /\ ConstructedReporter
  /\ IdleRetry
  /\ IdleHelpers
  /\ IdleFixture

NextReporter ==
  \/ OnBegin
  \/ ReportTestEnd
  \/ OnEnd

SpecReporter == InitReporter /\ [][NextReporter]_vars

\* what SpecRender lets a test throw: no message, or any short message
RenderMessages == {Absent} \cup {Some(m) : m \in Strings(MaxMessageLen)}

\* the runner reports the end of the only test of the run (SpecRender): a test
\* with any title that passed, or failed with any message
RenderTestEnd ==
  /\ Len(testResults) < 1
  /\ \E title \in Strings(MaxTitleLen) :
       \/ OnTestEnd(Outcome(title, "passed", 0, Absent, <<>>))
       \/ \E message \in RenderMessages :
            OnTestEnd(Outcome(title, "failed", 0, message, <<>>))

NextRender ==
  \/ OnBegin
  \/ RenderTestEnd
  \/ OnEnd

SpecRender == InitReporter /\ [][NextRender]_vars

\* a result with a given duration, first attempt, no attachments
TimedOutcome(title, status, duration, message) ==
  [Outcome(title, status, 0, message, <<>>) EXCEPT !.result.duration = duration]

PassedA == TimedOutcome(<<"A">>, "passed", 100, Absent)
FailedB == TimedOutcome(<<"B">>, "failed", 200, Some(<<"b", "o", "o", "m">>))
SkippedC == TimedOutcome(<<"C">>, "skipped", 0, Absent)
FailedMarkup == TimedOutcome(<<"B">>, "failed", 200, Some(<<"<", "b", ">">>))

\* the results the runner may report in SpecScenario
ScenarioOutcomes == {PassedA, FailedB, SkippedC, FailedMarkup}

\* the runner reports the end of a test (SpecScenario)
ScenarioTestEnd ==
  /\ Len(testResults) < MaxResults
  /\ \E outcome \in ScenarioOutcomes : OnTestEnd(outcome)

NextScenario ==
  \/ OnBegin
  \/ ScenarioTestEnd
  \/ OnEnd

SpecScenario == InitReporter /\ [][NextScenario]_vars

\* attachment names and paths tried: a path may be undefined (an attachment
\* with a body), empty, or a string
AttachmentNames == {<<"a">>, <<"<">>}
AttachmentPaths == {Absent, Some(<<>>), Some(<<"a">>), Some(<<"\"">>)}
Attachments ==
  {[name |-> n, path |-> q, contentType |-> "text/plain"] :
     n \in AttachmentNames, q \in AttachmentPaths}

\* the lists of at most n attachments
AttachmentLists(n) ==
  UNION {[1..k -> Attachments] : k \in 0..n}

\* the runner reports the end of the only test of the run (SpecAttach), with
\* any short list of attachments
AttachTestEnd ==
  /\ Len(testResults) < 1
  /\ \E status \in {"passed", "failed"}, attachments \in AttachmentLists(MaxAttachments) :
       OnTestEnd(Outcome(<<"a">>, status, 0, Some(<<"a">>), attachments))

NextAttach ==
  \/ OnBegin
  \/ AttachTestEnd
  \/ OnEnd

SpecAttach == InitReporter /\ [][NextAttach]_vars

\* the instants of the clock, in milliseconds
Clocks == {500 * k : k \in 0..MaxTicks}

\* the values of process.env.NODE_ENV tried
NodeEnvs == {Absent, Some(<<"p">>)}

\* half a second passes
Tick ==
  /\ now + 500 \in Clocks
  /\ now' = now + 500
  /\ UNCHANGED <<variant, rphase, testResults, startTime, endTime, reportFile,
                 rconsole, rthrown, nodeEnv, reports>>
  /\ UNCHANGED notReporter

\* the runner is started again after a run, in a new process whose clock and
\* environment are its own: a new reporter is constructed (field initialisers
\* and constructor); custom-report.html stays as the last run left it
NewRun ==
  /\ rphase = "Done"
  /\ now' \in Clocks
  /\ nodeEnv' \in NodeEnvs
  /\ rphase' = "NotStarted"
  /\ testResults' = <<>>
  /\ startTime' = now'
  /\ endTime' = now'
  /\ rconsole' = <<>>
  /\ rthrown' = FALSE
  /\ UNCHANGED <<variant, reportFile, reports>>
  /\ UNCHANGED notReporter

\* the runner reports the end of the only test of a run, which failed
\* (SpecRuns)
RunsTestEnd ==
  /\ Len(testResults) < 1
  /\ OnTestEnd(Outcome(<<"a">>, "failed", 0, Some(<<"a">>), <<>>))

InitRuns ==
  /\ variant \in {"enhanced", "core"}
  /\ nodeEnv \in NodeEnvs
  /\ ConstructedReporter
  /\ IdleRetry
  /\ IdleHelpers
  /\ IdleFixture

NextRuns ==
  \/ OnBegin
  \/ RunsTestEnd
  \/ OnEnd
  \/ Tick
  \/ NewRun

SpecRuns == InitRuns /\ [][NextRuns]_vars

-----------------------------------------------------------------------------
(* ReportUtils: the failure artifacts *)

\* JavaScript values that are not text
Null == [type |-> "null"]
\* the empty string ''
EmptyString == <<>>

\* letters and digits
Alphanumeric == {"a", "b", "t", "f", "0", "1", "2", "3", "4", "5", "6", "7", "8", "9"}

\* testInfo.title.replace(/[^a-zA-Z0-9]/g, '-')
Sanitized(title) ==
  [i \in 1..Len(title) |-> IF title[i] \in Alphanumeric THEN title[i] ELSE "-"]

\* path.join(dir, `${prefix}-${testName}-${timestamp}${ext}`)
ArtifactPath(dir, prefix, title, timestamp, ext) ==
  <<dir, prefix, Sanitized(title), timestamp, ext>>

\* generateTestExecutionSummary(testInfo)
GenerateTestExecutionSummary(info, clock) ==
  [testTitle |-> info.title,
   testFile |-> info.file,
   status |-> info.status,
   duration |-> info.duration,
   startTime |-> clock - info.duration,
   endTime |-> clock,
   retry |-> info.retry,
   workerIndex |-> info.workerIndex,
   project |-> info.project,
   browser |-> "unknown",
   viewport |-> [width |-> 0, height |-> 0],
   userAgent |-> "unknown",
   errors |-> info.errors,
   attachments |-> info.attachments]

\* the testInfo object of the core variant's failure report
CoreTestInfo(info) ==
  [title |-> info.title,
   file |-> info.file,
   status |-> info.status,
   duration |-> info.duration,
   retry |-> info.retry,
   project |-> info.project]

\* `error ? { message, stack, name } : null`
ErrorJson(error) ==
  IF error = "none" THEN Null
  ELSE [type |-> "object", message |-> error, stack |-> error, name |-> "Error"]

\* the steps of createFailureReport that touch the page or the disk
CaptureSteps == {"mkdir", "screenshot", "trace", "browserInfo", "write", "attach"}

\* the steps createFailureReport of a variant has
StepsOf(v) == IF v = "enhanced" THEN CaptureSteps ELSE CaptureSteps \ {"browserInfo"}

\* the state of a call of createFailureReport that has just started
Started(info, tracing) ==
  [steps |-> <<>>,
   console |-> << <<"log", "failure report">> >>,
   files |-> <<>>,
   attachments |-> info.attachments,
   traceActive |-> tracing,
   rejected |-> FALSE]

\* a step was attempted, and succeeded or failed
Tried(st, step, ok) == [st EXCEPT !.steps = Append(@, <<step, ok>>)]

\* a file was written and the success message printed
Wrote(st, kind, path, content) ==
  [st EXCEPT !.files = Append(@, [kind |-> kind, path |-> path, content |-> content]),
             !.console = Append(@, <<"log", kind>>)]

\* a step's own catch block: console.warn, and the step returns its fallback
Warned(st, step) == [st EXCEPT !.console = Append(@, <<"warn", step>>)]

\* (mutation of Caught: the catch block rethrows)
CaughtAndRethrown(st) ==
  [st EXCEPT !.console = Append(@, <<"error", "failure report">>), !.rejected = TRUE]

\* the catch block of createFailureReport: console.error, nothing rethrown
Caught(st) == [st EXCEPT !.console = Append(@, <<"error", "failure report">>)]

\* captureFailureTrace (enhanced) / stopTraceRecording (core) inside
\* createFailureReport: tracing.stop either writes the trace or throws; the
\* throw is caught in the helper, which returns '' (enhanced) or null (core)
TraceFallback(v) == IF v = "enhanced" THEN EmptyString ELSE Null

\* `path && fs.existsSync(path)` for a path this call produced
Exists(st, path) ==
  /\ path # Null
  /\ path # EmptyString
  /\ \E i \in 1..Len(st.files) : st.files[i].path = path

\* the two pushes at the end of createFailureReport
Attached(st, screenshotPath, tracePath) ==
  LET shot == IF Exists(st, screenshotPath)
                THEN << [name |-> "failure-screenshot", path |-> screenshotPath,
                         contentType |-> "image/png"] >>
                ELSE <<>>
      trace == IF Exists(st, tracePath)
                 THEN << [name |-> "failure-trace", path |-> tracePath,
                          contentType |-> "application/zip"] >>
                 ELSE <<>>
  IN  [st EXCEPT !.attachments = @ \o shot \o trace]

\* createFailureReport(page, testInfo, error) of variant v, in an environment
\* where the steps in `fails` fail; the result is the state of the call when
\* its promise settles
CreateFailureReport(v, fails, info, error, tracing, clock) ==
  LET s0 == Started(info, tracing)
  IN
  IF "mkdir" \in fails THEN Caught(Tried(s0, "mkdir", FALSE))
  ELSE
  LET s1 == Tried(s0, "mkdir", TRUE)
  IN
  IF "screenshot" \in fails THEN Caught(Tried(s1, "screenshot", FALSE))
  ELSE
  LET screenshotPath == ArtifactPath("screenshots", "failure", info.title, clock, ".png")
      s2 == Wrote(Tried(s1, "screenshot", TRUE), "screenshot", screenshotPath, "png")
      traceOk == "trace" \notin fails
      tracePath == IF traceOk
                     THEN ArtifactPath("traces",
                                       IF v = "enhanced" THEN "failure-trace" ELSE "trace",
                                       info.title, clock, ".zip")
                     ELSE TraceFallback(v)
      s3 == IF traceOk
              THEN [Wrote(Tried(s2, "trace", TRUE), "trace", tracePath, "zip")
                      EXCEPT !.traceActive = FALSE]
              ELSE Warned(Tried(s2, "trace", FALSE), "trace")
      infoOk == "browserInfo" \notin fails
      browserInfo == IF infoOk THEN [type |-> "object", userAgent |-> "ua"] ELSE Null
      s4 == IF v # "enhanced" THEN s3
            ELSE IF infoOk
              THEN [Tried(s3, "browserInfo", TRUE)
                      EXCEPT !.console = Append(@, <<"log", "browserInfo">>)]
              ELSE Warned(Tried(s3, "browserInfo", FALSE), "browserInfo")
      failureReport ==
        IF v = "enhanced"
          THEN [testInfo |-> GenerateTestExecutionSummary(info, clock),
                error |-> ErrorJson(error),
                artifacts |-> [screenshot |-> screenshotPath, trace |-> tracePath],
                browserInfo |-> browserInfo,
                timestamp |-> clock]
          ELSE [testInfo |-> CoreTestInfo(info),
                error |-> ErrorJson(error),
                artifacts |-> [screenshot |-> screenshotPath, trace |-> tracePath],
                timestamp |-> clock]
      reportPath == ArtifactPath("logs", "failure-report", info.title, clock, ".json")
  IN
  IF "write" \in fails THEN Caught(Tried(s4, "write", FALSE))
  ELSE
  LET s5 == Wrote(Tried(s4, "write", TRUE), "failure-report", reportPath, failureReport)
  IN
  IF "attach" \in fails THEN Caught(Tried(s5, "attach", FALSE))
  ELSE Attached(Tried(s5, "attach", TRUE), screenshotPath, tracePath)

\* what can fail in the environment of a call: anything; the screenshot and
\* the browser information need an open page, tracing.stop a started trace
PossibleFailures ==
  {fails \in SUBSET CaptureSteps :
     /\ ~pageOpen => {"screenshot", "browserInfo"} \subseteq fails
     /\ ~traceActive => "trace" \in fails}

\* the effect of `await ReportUtils.createFailureReport(page, testInfo, error)`
\* on the test: the files, the attachments, the trace, and the settled call
AwaitCreateFailureReport(fails, error) ==
  LET st == CreateFailureReport(uvariant, fails, testInfo, error, traceActive, now)
  IN  /\ capture' = [called |-> TRUE, fails |-> fails, error |-> error,
                     pageOpen |-> pageOpen, steps |-> st.steps,
                     console |-> st.console, rejected |-> st.rejected]
      /\ files' = files \o st.files
      /\ testInfo' = [testInfo EXCEPT !.attachments = st.attachments]
      /\ traceActive' = st.traceActive
      /\ fconsole' = fconsole \o st.console

\* a test calls createFailureReport itself (SpecCapture)
CallCreateFailureReport ==
  /\ fpc = "direct"
  /\ ~capture.called
  /\ \E fails \in PossibleFailures, error \in {"none", "TestError"} :
       AwaitCreateFailureReport(fails, error)
  /\ UNCHANGED <<uvariant, pageOpen, fpc, testError, fOutcome, traceStop>>
  /\ UNCHANGED notFixture

\* a failing test with the page fixture's artifacts set up or not, about to
\* call createFailureReport of either variant
InitCapture ==
  /\ uvariant \in {"enhanced", "core"}
  /\ pageOpen \in BOOLEAN
  /\ traceActive \in BOOLEAN
  /\ \E status \in Statuses :
       testInfo = [title |-> FixtureTitle, file |-> <<"t", "/", "f">>,
                   status |-> status, duration |-> 100, retry |-> 0,
                   workerIndex |-> 0, project |-> "chromium",
                   errors |-> <<>>, attachments |-> <<>>]
  /\ files = <<>>
  /\ capture = NoCapture
  /\ fpc = "direct"
  /\ testError = "none"
  /\ fconsole = <<>>
  /\ fOutcome = "pending"
  /\ traceStop = NoStop
  /\ IdleRetry
  /\ IdleHelpers
  /\ IdleReporter

NextCapture == CallCreateFailureReport

SpecCapture == InitCapture /\ [][NextCapture]_vars

-----------------------------------------------------------------------------
(* The page fixture of TestFixtures.ts *)

\* the fixture up to `await use(page)`: the report directories are created
\* (or mkdirSync throws and the fixture fails before the test), the trace
\* recording is started (or not: startTraceRecording catches the error)
SetupPage ==
  /\ fpc = "setup"
  /\ \E dirs \in BOOLEAN, starts \in BOOLEAN :
       IF dirs
         THEN /\ traceActive' = starts
              /\ fconsole' = Append(fconsole, <<IF starts THEN "log" ELSE "warn", "trace start">>)
              /\ fpc' = "body"
              /\ fOutcome' = fOutcome
         ELSE /\ fpc' = "done"
              /\ fOutcome' = "MkdirError"
              /\ UNCHANGED <<traceActive, fconsole>>
  /\ UNCHANGED <<uvariant, pageOpen, testInfo, files, capture, testError, traceStop>>
  /\ UNCHANGED notFixture

\* the runner's record of the finished test body
Finished(info, status, failed) ==
  [info EXCEPT !.status = status,
               !.duration = 100,
               !.errors = IF failed THEN << [message |-> "TestError"] >> ELSE <<>>]

\* `await use(page)` resolves: the test body ran (and may have closed the page)
TestBodyReturns ==
  /\ fpc = "body"
  /\ \E status \in Statuses, closes \in BOOLEAN :
       /\ testInfo' = Finished(testInfo, status, status \in {"failed", "timedOut"})
       /\ pageOpen' = ~closes
  /\ fpc' = "stopTrace"
  /\ UNCHANGED <<uvariant, traceActive, files, capture, testError, fconsole, fOutcome, traceStop>>
  /\ UNCHANGED notFixture

\* (mutation of TestBodyThrows: the teardown follows the try statement instead
\* of being its finally block, so the rethrown error skips it)
TestBodyThrowsPastTeardown ==
  /\ fpc = "body"
  /\ \E status \in Statuses, closes \in BOOLEAN :
       /\ testInfo' = Finished(testInfo, status, TRUE)
       /\ pageOpen' = ~closes
  /\ testError' = "TestError"
  /\ fpc' = "done"
  /\ fOutcome' = "TestError"
  /\ UNCHANGED <<uvariant, traceActive, files, capture, fconsole, traceStop>>
  /\ UNCHANGED notFixture

\* `await use(page)` rejects with the test's error: catch, `testError = error`,
\* `throw error` (pending while the finally block runs)
TestBodyThrows ==
  /\ fpc = "body"
  /\ \E status \in Statuses, closes \in BOOLEAN :
       /\ testInfo' = Finished(testInfo, status, TRUE)
       /\ pageOpen' = ~closes
  /\ testError' = "TestError"
  /\ fpc' = "stopTrace"
  /\ UNCHANGED <<uvariant, traceActive, files, capture, fconsole, fOutcome, traceStop>>
  /\ UNCHANGED notFixture

\* (mutation of StopCaught: the catch block rethrows)
StopCaughtAndRethrown(v) ==
  [threw |-> TRUE, returned |-> Undefined, written |-> <<>>,
   console |-> <<"warn", "trace">>, stopped |-> FALSE]

\* the catch block of stopTraceRecording: console.warn, and '' (enhanced) or
\* null (core) is returned
StopCaught(v) ==
  [threw |-> FALSE, returned |-> TraceFallback(v), written |-> <<>>,
   console |-> <<"warn", "trace">>, stopped |-> FALSE]

\* stopTraceRecording(page, testInfo) of variant v: tracing.stop writes the
\* trace of a started recording and the path is returned, or it throws (no
\* recording, or the write fails) and the catch block runs
StopTraceRecording(v, stops, title, clock) ==
  LET tracePath == ArtifactPath("traces", "trace", title, clock, ".zip")
  IN  IF stops
        THEN [threw |-> FALSE, returned |-> tracePath,
              written |-> << [kind |-> "trace", path |-> tracePath, content |-> "zip"] >>,
              console |-> <<"log", "trace">>, stopped |-> TRUE]
        ELSE StopCaught(v)

\* the effect of `await ReportUtils.stopTraceRecording(page, testInfo)`
AwaitStopTraceRecording(stops) ==
  LET call == StopTraceRecording(uvariant, stops, testInfo.title, now)
  IN  /\ traceStop' = [called |-> TRUE, wasActive |-> traceActive, stops |-> stops,
                       threw |-> call.threw, returned |-> call.returned]
      /\ files' = files \o call.written
      /\ traceActive' = (traceActive /\ ~call.stopped)
      /\ fconsole' = Append(fconsole, call.console)

\* finally: `await ReportUtils.stopTraceRecording(page, testInfo)`; the value
\* it returns is dropped
TeardownStopTrace ==
  /\ fpc = "stopTrace"
  /\ \E stops \in BOOLEAN :
       /\ stops => traceActive
       /\ AwaitStopTraceRecording(stops)
  /\ fpc' = "report"
  /\ UNCHANGED <<uvariant, pageOpen, testInfo, capture, testError, fOutcome>>
  /\ UNCHANGED notFixture

\* (mutation of ShouldReport: every status but passed and skipped counts)
ShouldReportUnlessPassed ==
  testInfo.status \notin {"passed", "skipped"} \/ testError # "none"

\* the condition of the finally block: testInfo.status === 'failed' || testError
ShouldReport == testInfo.status = "failed" \/ testError # "none"

\* finally: `await ReportUtils.createFailureReport(page, testInfo, testError)`;
\* a rejection of that promise would be thrown out of the finally block
TeardownFailureReport ==
  /\ fpc = "report"
  /\ ShouldReport
  /\ \E fails \in PossibleFailures : AwaitCreateFailureReport(fails, testError)
  /\ IF capture'.rejected
       THEN fpc' = "done" /\ fOutcome' = "ReportError"
       ELSE fpc' = "log" /\ fOutcome' = fOutcome
  /\ UNCHANGED <<uvariant, pageOpen, testError, traceStop>>
  /\ UNCHANGED notFixture

\* finally: the test did not fail, no failure report
TeardownNoReport ==
  /\ fpc = "report"
  /\ ~ShouldReport
  /\ fpc' = "log"
  /\ UNCHANGED <<uvariant, pageOpen, traceActive, testInfo, files, capture, testError,
                 fconsole, fOutcome, traceStop>>
  /\ UNCHANGED notFixture

\* finally: logTestResult, then saveTestExecutionSummary, whose
\* fs.writeFileSync writes the summary or throws out of the finally block; when
\* the block completes, the pending `throw error` of the catch block takes effect
TeardownLogAndSave ==
  /\ fpc = "log"
  /\ \E writes \in BOOLEAN :
       IF writes
         THEN /\ files' = Append(files,
                    [kind |-> "summary",
                     path |-> ArtifactPath("logs", "summary", testInfo.title, now, ".json"),
                     content |-> GenerateTestExecutionSummary(testInfo, now)])
              /\ fconsole' = fconsole \o << <<"log", "result">>, <<"log", "summary">> >>
              /\ fOutcome' = IF testError # "none" THEN testError ELSE "resolved"
         ELSE /\ fconsole' = Append(fconsole, <<"log", "result">>)
              /\ fOutcome' = "WriteError"
              /\ UNCHANGED files
  /\ fpc' = "done"
  /\ UNCHANGED <<uvariant, pageOpen, traceActive, testInfo, capture, testError, traceStop>>
  /\ UNCHANGED notFixture

InitFixture ==
  /\ uvariant = "enhanced"
  /\ FreshTest
  /\ IdleRetry
  /\ IdleHelpers
  /\ IdleReporter

NextFixture ==
  \/ SetupPage
  \/ TestBodyReturns
  \/ TestBodyThrows
  \/ TeardownStopTrace
  \/ TeardownFailureReport
  \/ TeardownNoReport
  \/ TeardownLogAndSave

SpecFixture == InitFixture /\ [][NextFixture]_vars

-----------------------------------------------------------------------------
(* WaitUtils.waitWithRetry *)

\* a parameter with a default value
Defaulted(arg, default) == IF arg.given THEN arg.value ELSE default

\* retryDelay arguments tried (milliseconds)
RetryDelays == {Omitted, Given(250)}

\* maxRetries arguments tried
MaxRetriesArgs == {Omitted} \cup {Given(n) : n \in (-1)..MaxRetriesArg}

\* the kinds of error an operation may throw
ErrorKinds == {"TimeoutError", "Error"}

\* the error thrown by the k-th invocation of the operation
OpError(k, kind) == <<"error", k, kind>>
\* the value returned by the k-th invocation of the operation
OpValue(k) == <<"value", k>>

InitRetry == IdleRetry /\ IdleReporter /\ IdleFixture /\ IdleHelpers

\* (mutation of LoopTest: the test is `i <= maxRetries`)
LoopTestInclusive(i, maxRetries) == i <= maxRetries

\* the loop test `i < maxRetries` before the first iteration and after i++
LoopTest(i, maxRetries) == i < maxRetries

\* entry: parameters are defaulted, `let lastError`, `i = 0`, first loop test
WaitWithRetryCall ==
  /\ wpc = "idle"
  /\ \E maxArg \in MaxRetriesArgs, delayArg \in RetryDelays :
       /\ wArgs' = [maxRetries |-> maxArg, retryDelay |-> delayArg]
       /\ wMaxRetries' = Defaulted(maxArg, DefaultMaxRetries)
       /\ wDelay' = Defaulted(delayArg, DefaultRetryDelay)
  /\ wI' = 0
  /\ wLastError' = Undefined
  /\ wpc' = IF LoopTest(0, wMaxRetries') THEN "attempt" ELSE "exhausted"
  /\ UNCHANGED <<wOutcomes, wWaits, wResult>>
  /\ UNCHANGED notRetry

\* (mutation of ShouldWait: the delay follows every failed attempt, the last too)
ShouldWaitAfterEveryFailure(i, maxRetries) == i < maxRetries

\* the catch block's test `i < maxRetries - 1`
ShouldWait(i, maxRetries) == i < maxRetries - 1

\* (mutation of AttemptSucceeds: the value is kept but the loop is not left)
AttemptSucceedsNoReturn ==
  /\ wpc = "attempt"
  /\ LET k == Len(wOutcomes) + 1 IN
       /\ wOutcomes' = Append(wOutcomes, OpValue(k))
       /\ wResult' = <<"returned", OpValue(k)>>
  /\ wI' = wI + 1
  /\ wpc' = IF LoopTest(wI + 1, wMaxRetries) THEN "attempt" ELSE "returned"
  /\ UNCHANGED <<wArgs, wMaxRetries, wDelay, wLastError, wWaits>>
  /\ UNCHANGED notRetry

\* `return await operation()` resolves: the call returns that value
AttemptSucceeds ==
  /\ wpc = "attempt"
  /\ LET k == Len(wOutcomes) + 1 IN
       /\ wOutcomes' = Append(wOutcomes, OpValue(k))
       /\ wResult' = <<"returned", OpValue(k)>>
  /\ wpc' = "returned"
  /\ UNCHANGED <<wArgs, wMaxRetries, wDelay, wI, wLastError, wWaits>>
  /\ UNCHANGED notRetry

\* (mutation of CaughtError: the first error is kept, later ones are dropped)
CaughtErrorKeepFirst(old, error) == IF old = Undefined THEN error ELSE old

\* the error assigned in the catch block: `lastError = error as Error`
CaughtError(old, error) == error

\* `await operation()` rejects: catch, remember the error, wait or go on
AttemptFails ==
  /\ wpc = "attempt"
  /\ \E kind \in ErrorKinds :
       LET k == Len(wOutcomes) + 1 IN
         /\ wOutcomes' = Append(wOutcomes, OpError(k, kind))
         /\ wLastError' = CaughtError(wLastError, OpError(k, kind))
  /\ IF ShouldWait(wI, wMaxRetries)
       THEN /\ wpc' = "delay"
            /\ wI' = wI
       ELSE /\ wI' = wI + 1
            /\ wpc' = IF LoopTest(wI + 1, wMaxRetries) THEN "attempt" ELSE "exhausted"
  /\ UNCHANGED <<wArgs, wMaxRetries, wDelay, wWaits, wResult>>
  /\ UNCHANGED notRetry

\* `await this.waitForTimeout(retryDelay)` completes, then i++ and the loop test
DelayElapses ==
  /\ wpc = "delay"
  /\ wWaits' = Append(wWaits, wDelay)
  /\ wI' = wI + 1
  /\ wpc' = IF LoopTest(wI + 1, wMaxRetries) THEN "attempt" ELSE "exhausted"
  /\ UNCHANGED <<wArgs, wMaxRetries, wDelay, wLastError, wOutcomes, wResult>>
  /\ UNCHANGED notRetry

\* `throw lastError!` after the loop
ThrowLastError ==
  /\ wpc = "exhausted"
  /\ wResult' = <<"thrown", wLastError>>
  /\ wpc' = "thrown"
  /\ UNCHANGED <<wArgs, wMaxRetries, wDelay, wI, wLastError, wOutcomes, wWaits>>
  /\ UNCHANGED notRetry

NextRetry ==
  \/ WaitWithRetryCall
  \/ AttemptSucceeds
  \/ AttemptFails
  \/ DelayElapses
  \/ ThrowLastError

SpecRetry == InitRetry /\ [][NextRetry]_vars

-----------------------------------------------------------------------------
(* ReportUtils.startTraceRecording and stopTraceRecording, called directly *)

\* a test calls startTraceRecording: tracing.start starts the recording, or
\* throws ('already started' when one is active, or another failure); the
\* catch block prints and nothing is thrown
CallStartTraceRecording ==
  /\ fpc = "trace"
  /\ ~traceStop.called
  /\ Len(fconsole) < MaxStarts
  /\ IF traceActive
       THEN /\ fconsole' = Append(fconsole, <<"log", "trace already active">>)
            /\ UNCHANGED traceActive
       ELSE \E starts \in BOOLEAN :
              /\ traceActive' = starts
              /\ fconsole' = Append(fconsole, <<IF starts THEN "log" ELSE "warn", "trace start">>)
  /\ UNCHANGED <<uvariant, pageOpen, testInfo, files, capture, fpc, testError,
                 fOutcome, traceStop>>
  /\ UNCHANGED notFixture

\* a test calls stopTraceRecording
CallStopTraceRecording ==
  /\ fpc = "trace"
  /\ ~traceStop.called
  /\ \E stops \in BOOLEAN :
       /\ stops => traceActive
       /\ AwaitStopTraceRecording(stops)
  /\ UNCHANGED <<uvariant, pageOpen, testInfo, capture, fpc, testError, fOutcome>>
  /\ UNCHANGED notFixture

\* a test of either variant of ReportUtils, with a recording started by the
\* runner's configuration or not, about to call the trace helpers
InitTrace ==
  /\ uvariant \in {"enhanced", "core"}
  /\ pageOpen = TRUE
  /\ traceActive \in BOOLEAN
  /\ testInfo = [title |-> FixtureTitle, file |-> <<"t", "/", "f">>,
                 status |-> "passed", duration |-> 100, retry |-> 0,
                 workerIndex |-> 0, project |-> "chromium",
                 errors |-> <<>>, attachments |-> <<>>]
  /\ files = <<>>
  /\ capture = NoCapture
  /\ fpc = "trace"
  /\ testError = "none"
  /\ fconsole = <<>>
  /\ fOutcome = "pending"
  /\ traceStop = NoStop
  /\ IdleRetry
  /\ IdleHelpers
  /\ IdleReporter

NextTrace ==
  \/ CallStartTraceRecording
  \/ CallStopTraceRecording
  \/ Tick

SpecTrace == InitTrace /\ [][NextTrace]_vars

-----------------------------------------------------------------------------
(* Artifact paths of tests running in several workers *)

\* TestUtils.getCurrentTimestamp(): the ISO text of the instant with ':' and
\* '.' replaced by '-'; the text names the millisecond
GetCurrentTimestamp(t) == [dashed |-> ToISOString(t)]

\* the artifacts written under test-results/
ArtifactKinds == {"screenshot", "trace", "failure-report", "console", "network"}

\* the path the enhanced ReportUtils gives an artifact of a test
ArtifactOf(kind, title, t) ==
  LET timestamp == GetCurrentTimestamp(t)
  IN  CASE kind = "screenshot" -> ArtifactPath("screenshots", "failure", title, timestamp, ".png")
        [] kind = "trace" -> ArtifactPath("traces", "trace", title, timestamp, ".zip")
        [] kind = "failure-report" -> ArtifactPath("logs", "failure-report", title, timestamp, ".json")
        [] kind = "console" -> ArtifactPath("logs", "console", title, timestamp, ".log")
        [] kind = "network" -> ArtifactPath("logs", "network", title, timestamp, ".json")

\* the worker processes, and the titles of their tests
Workers == {1, 2}
WorkerTitles == {<<"a", " ", "b">>, <<"a", "/", "b">>}

\* a test running in worker w writes an artifact
WorkerCaptures(w) ==
  /\ fpc = "workers"
  /\ Len(files) < MaxCaptures
  /\ \E kind \in ArtifactKinds, title \in WorkerTitles :
       files' = Append(files, [kind |-> kind, path |-> ArtifactOf(kind, title, now),
                               content |-> title, worker |-> w])
  /\ UNCHANGED <<uvariant, pageOpen, traceActive, testInfo, capture, fpc, testError,
                 fconsole, fOutcome, traceStop>>
  /\ UNCHANGED notFixture

InitWorkers ==
  /\ uvariant = "enhanced"
  /\ pageOpen = TRUE
  /\ traceActive = FALSE
  /\ testInfo = [title |-> FixtureTitle, file |-> <<"t", "/", "f">>,
                 status |-> "failed", duration |-> 100, retry |-> 0,
                 workerIndex |-> 0, project |-> "chromium",
                 errors |-> <<>>, attachments |-> <<>>]
  /\ files = <<>>
  /\ capture = NoCapture
  /\ fpc = "workers"
  /\ testError = "none"
  /\ fconsole = <<>>
  /\ fOutcome = "pending"
  /\ traceStop = NoStop
  /\ IdleRetry
  /\ IdleHelpers
  /\ IdleReporter

NextWorkers ==
  \/ \E w \in Workers : WorkerCaptures(w)
  \/ Tick

SpecWorkers == InitWorkers /\ [][NextWorkers]_vars

-----------------------------------------------------------------------------
(* ReportUtils.captureConsoleLogs and captureNetworkRequests *)

\* what the page emits: a console message (label: its type, body: its text),
\* a request (label: its method, body: its URL) or a response (label: its
\* status, body: its URL); the requests to "/cart" stay unanswered
ConsoleMessages == [event : {"console"}, label : {"log", "error"}, body : {"a"}]
PageRequests == [event : {"request"}, label : {"GET"}, body : {"/", "/cart"}]
PageResponses == [event : {"response"}, label : {"200", "404"}, body : {"/"}]

\* an event, with the instant it arrived at
Arrival(e, clock) == [event |-> e.event, label |-> e.label, body |-> e.body, at |-> clock]

\* Date.now()
DateNow(t) == [epoch |-> t]

\* `[${new Date().toISOString()}] ${msg.type().toUpperCase()}: ${msg.text()}`
\* (the core ReportUtils leaves the type as it is)
LogEntry(v, msg, clock) ==
  [timestamp |-> ToISOString(clock),
   type |-> IF v = "enhanced" THEN ToUpperCase(msg.label) ELSE msg.label,
   text |-> msg.body]

\* a request of which no response was recorded
NoResponse == [received |-> FALSE, status |-> ""]

\* the object pushed for a request; headers and postData are copied from the
\* request like method and url
RequestEntry(request, clock) ==
  [timestamp |-> ToISOString(clock),
   method |-> request.label,
   url |-> request.body,
   response |-> NoResponse]

\* one that does not agree with Array.prototype.findIndex: the last match
FindLastIndex(list, url) ==
  IF \E k \in 1..Len(list) : list[k].url = url
  THEN (CHOOSE k \in 1..Len(list) :
          /\ list[k].url = url
          /\ \A j \in (k + 1)..Len(list) : list[j].url # url) - 1
  ELSE -1

\* requests.findIndex(req => req.url === response.url()): the index, counted
\* from 0, of the first match, or -1
FindIndex(list, url) ==
  IF \E k \in 1..Len(list) : list[k].url = url
  THEN (CHOOSE k \in 1..Len(list) :
          /\ list[k].url = url
          /\ \A j \in 1..(k - 1) : list[j].url # url) - 1
  ELSE -1

\* one that does not agree with the exit handlers: a single entry is not saved
FlushNeededMany(entries) == Len(entries) > 1

\* `logs.length > 0`, `requests.length > 0`
FlushNeeded(entries) == Len(entries) > 0

\* the path of the console log: the enhanced ReportUtils names it when the
\* listener is registered, the core one when it saves
ConsoleLogPath(v, title, registered, clock) ==
  IF v = "enhanced"
  THEN ArtifactPath("logs", "console", title, GetCurrentTimestamp(registered), ".log")
  ELSE ArtifactPath("logs", "console", title, DateNow(clock), ".log")

\* the path of the network log
NetworkLogPath(title, registered) ==
  ArtifactPath("logs", "network", title, GetCurrentTimestamp(registered), ".json")

\* fs.writeFileSync(logPath, logs.join('\n')): the text is its lines
ConsoleWrite(ok) ==
  [kind |-> "console",
   path |-> ConsoleLogPath(uvariant, testInfo.title, lRegistered, now),
   content |-> logs, ok |-> ok]

\* fs.writeFileSync(networkLogPath, JSON.stringify(requests, null, 2))
NetworkWrite(ok) ==
  [kind |-> "network",
   path |-> NetworkLogPath(testInfo.title, lRegistered),
   content |-> requests, ok |-> ok]

\* the page fixture registers the listeners (TestFixtures.ts 36-37); the core
\* ReportUtils has no network capture
StartListening ==
  /\ lpc = "idle"
  /\ lpc' = "listening"
  /\ lRegistered' = now
  /\ UNCHANGED <<logs, requests, lArrived, lfiles>>
  /\ UNCHANGED notListeners

\* page.on('console')
OnConsole ==
  /\ lpc = "listening"
  /\ Len(lArrived) < MaxEvents
  /\ \E msg \in ConsoleMessages :
       /\ lArrived' = Append(lArrived, Arrival(msg, now))
       /\ logs' = Append(logs, LogEntry(uvariant, msg, now))
  /\ UNCHANGED <<lpc, lRegistered, requests, lfiles>>
  /\ UNCHANGED notListeners

\* page.on('request')
OnRequest ==
  /\ lpc = "listening"
  /\ uvariant = "enhanced"
  /\ Len(lArrived) < MaxEvents
  /\ \E request \in PageRequests :
       /\ lArrived' = Append(lArrived, Arrival(request, now))
       /\ requests' = Append(requests, RequestEntry(request, now))
  /\ UNCHANGED <<lpc, lRegistered, logs, lfiles>>
  /\ UNCHANGED notListeners

\* page.on('response')
OnResponse ==
  /\ lpc = "listening"
  /\ uvariant = "enhanced"
  /\ Len(lArrived) < MaxEvents
  /\ \E response \in PageResponses :
       LET requestIndex == FindIndex(requests, response.body)
       IN  /\ lArrived' = Append(lArrived, Arrival(response, now))
           /\ requests' =
                IF requestIndex # -1
                THEN [requests EXCEPT ![requestIndex + 1].response =
                        [received |-> TRUE, status |-> response.label]]
                ELSE requests
  /\ UNCHANGED <<lpc, lRegistered, logs, lfiles>>
  /\ UNCHANGED notListeners

\* the page is closed at the end of the test: page.on('close') of the core
\* ReportUtils saves the console log; writeFileSync can fail
OnClose ==
  /\ lpc = "listening"
  /\ lpc' = "closed"
  /\ IF uvariant = "core" /\ FlushNeeded(logs)
     THEN \E ok \in BOOLEAN : lfiles' = Append(lfiles, ConsoleWrite(ok))
     ELSE lfiles' = lfiles
  /\ UNCHANGED <<lRegistered, logs, requests, lArrived>>
  /\ UNCHANGED notListeners

\* the worker process exits: process.on('exit') of the enhanced ReportUtils,
\* the handler of the console log and then the one of the network log; when
\* the first throws, whether the second still runs is left open
OnExit ==
  /\ lpc = "closed"
  /\ lpc' = "exited"
  /\ IF uvariant = "enhanced"
     THEN \E okConsole, okNetwork, second \in BOOLEAN :
            LET first == IF FlushNeeded(logs) THEN <<ConsoleWrite(okConsole)>> ELSE <<>>
                runs == (FlushNeeded(logs) /\ ~okConsole) => second
            IN  lfiles' = lfiles \o first \o
                            (IF runs /\ FlushNeeded(requests)
                             THEN <<NetworkWrite(okNetwork)>> ELSE <<>>)
     ELSE lfiles' = lfiles
  /\ UNCHANGED <<lRegistered, logs, requests, lArrived>>
  /\ UNCHANGED notListeners

\* time passes while the page is open; no handler reads the clock later
TickWhileOpen == lpc \in {"idle", "listening"} /\ Tick

InitListeners ==
  /\ uvariant \in {"enhanced", "core"}
  /\ FreshTest
  /\ IdleHelpers
  /\ IdleRetry
  /\ IdleReporter

NextListeners ==
  \/ StartListening
  \/ OnConsole
  \/ OnRequest
  \/ OnResponse
  \/ OnClose
  \/ OnExit
  \/ TickWhileOpen

SpecListeners == InitListeners /\ [][NextListeners]_vars

\* the test ends and the worker process exits: the fixture closes the page
\* when the test is over and the runner ends its workers with the run
SpecListenersFair ==
  /\ SpecListeners
  /\ WF_vars(StartListening)
  /\ WF_vars(OnClose)
  /\ WF_vars(OnExit)

-----------------------------------------------------------------------------
(* WaitUtils.waitForElementStable *)

\* positions are counted in halves of a pixel: x and y of the bounding box
Position(x, y) == [known |-> TRUE, x |-> x, y |-> y]
Positions == {Position(0, 0), Position(1, 0), Position(2, 0), Position(0, 2)}

\* the timeouts tried: omitted, or up to the time MaxPolls polls take
StableTimeouts == {Omitted} \cup {Given(PollInterval * k) : k \in 0..MaxPolls}

\* Math.abs
Abs(n) == IF n < 0 THEN -n ELSE n

\* one that does not agree with the test of the position: x only
StillAtX(last, current) == last.known /\ Abs(current.x - last.x) < 2

\* lastPosition && Math.abs(currentPosition.x - lastPosition.x) < 1 &&
\* Math.abs(currentPosition.y - lastPosition.y) < 1, in halves of a pixel
StillAt(last, current) ==
  /\ last.known
  /\ Abs(current.x - last.x) < 2
  /\ Abs(current.y - last.y) < 2

\* `Element did not stabilize within ${timeout}ms`
DidNotStabilize(timeout) ==
  <<"thrown", "Element did not stabilize within ", timeout, "ms">>

\* waitForElementStable(locator, timeout = 30000) is called
StableCall ==
  /\ spc = "idle"
  /\ \E timeout \in StableTimeouts :
       sTimeout' = IF timeout.given THEN timeout.value ELSE DefaultStableTimeout
  /\ sElapsed' = 0
  /\ lastPosition' = NoPosition
  /\ stableCount' = 0
  /\ spc' = "test"
  /\ UNCHANGED <<sPolls, sResult>>
  /\ UNCHANGED notStable

\* the loop test holds and boundingBox() gives a box
StableBox ==
  /\ spc = "test"
  /\ sElapsed < sTimeout
  /\ Len(sPolls) < MaxPolls
  /\ \E currentPosition \in Positions :
       /\ sPolls' = Append(sPolls, [outcome |-> "box", position |-> currentPosition])
       /\ IF StillAt(lastPosition, currentPosition)
          THEN /\ stableCount' = stableCount + 1
               /\ IF stableCount + 1 >= RequiredStableChecks
                  THEN /\ spc' = "returned"
                       /\ sResult' = <<"returned">>
                       /\ lastPosition' = lastPosition
                  ELSE /\ spc' = "wait"
                       /\ sResult' = sResult
                       /\ lastPosition' = currentPosition
          ELSE /\ stableCount' = 0
               /\ spc' = "wait"
               /\ sResult' = sResult
               /\ lastPosition' = currentPosition
  /\ UNCHANGED <<sTimeout, sElapsed>>
  /\ UNCHANGED notStable

\* the loop test holds and boundingBox() gives null (outcome "null") or
\* throws (outcome "throws", caught)
StableNoBox ==
  /\ spc = "test"
  /\ sElapsed < sTimeout
  /\ Len(sPolls) < MaxPolls
  /\ \E outcome \in {"null", "throws"} :
       sPolls' = Append(sPolls, [outcome |-> outcome, position |-> NoPosition])
  /\ spc' = "wait"
  /\ UNCHANGED <<sTimeout, sElapsed, lastPosition, stableCount, sResult>>
  /\ UNCHANGED notStable

\* await this.waitForTimeout(100), in the try block or in the catch block
StableWaitElapses ==
  /\ spc = "wait"
  /\ sElapsed' = sElapsed + PollInterval
  /\ spc' = "test"
  /\ UNCHANGED <<sTimeout, lastPosition, stableCount, sPolls, sResult>>
  /\ UNCHANGED notStable

\* the loop test fails: throw new Error(...)
StableTimesOut ==
  /\ spc = "test"
  /\ ~(sElapsed < sTimeout)
  /\ spc' = "thrown"
  /\ sResult' = DidNotStabilize(sTimeout)
  /\ UNCHANGED <<sTimeout, sElapsed, lastPosition, stableCount, sPolls>>
  /\ UNCHANGED notStable

InitStable == IdleHelpers /\ IdleRetry /\ IdleReporter /\ IdleFixture

NextStable ==
  \/ StableCall
  \/ StableBox
  \/ StableNoBox
  \/ StableWaitElapses
  \/ StableTimesOut

SpecStable == InitStable /\ [][NextStable]_vars

-----------------------------------------------------------------------------
(* retryTest: the page.goto wrapper of TestFixtures.ts *)

\* the number of navigation attempts: `for (let i = 0; i < 3; i++)`
GotoAttempts == 3

\* the urls and options the wrapper is called with
GotoUrls == {"/", "/cart"}
GotoOptions == {Omitted, Given(30000)}

\* the loop test `i < 3`
GotoLoopTest(i) == i < GotoAttempts

\* the delay after the failure of the attempt with loop index i:
\* `1000 * (i + 1)`
GotoDelay(i) == 1000 * (i + 1)

\* entry of page.goto(url, options): `let lastError`, `i = 0`, first loop test
GotoCall ==
  /\ gpc = "idle"
  /\ \E url \in GotoUrls, options \in GotoOptions :
       gArgs' = [url |-> url, options |-> options]
  /\ gI' = 0
  /\ gLastError' = Undefined
  /\ gpc' = IF GotoLoopTest(0) THEN "attempt" ELSE "exhausted"
  /\ UNCHANGED <<gOutcomes, gWaits, gResult>>
  /\ UNCHANGED notGoto

\* `return await originalGoto(url, options)` resolves
GotoSucceeds ==
  /\ gpc = "attempt"
  /\ LET k == Len(gOutcomes) + 1 IN
       /\ gOutcomes' = Append(gOutcomes, OpValue(k))
       /\ gResult' = <<"returned", OpValue(k)>>
  /\ gpc' = "returned"
  /\ UNCHANGED <<gArgs, gI, gLastError, gWaits>>
  /\ UNCHANGED notGoto

\* `await originalGoto(url, options)` rejects: catch, `lastError = error`,
\* console.log, and the wait starts
GotoFails ==
  /\ gpc = "attempt"
  /\ \E kind \in ErrorKinds :
       LET k == Len(gOutcomes) + 1 IN
         /\ gOutcomes' = Append(gOutcomes, OpError(k, kind))
         /\ gLastError' = OpError(k, kind)
  /\ gpc' = "wait"
  /\ UNCHANGED <<gArgs, gI, gWaits, gResult>>
  /\ UNCHANGED notGoto

\* `await TestUtils.wait(1000 * (i + 1))` completes, then i++ and the loop test
GotoWaitElapses ==
  /\ gpc = "wait"
  /\ gWaits' = Append(gWaits, GotoDelay(gI))
  /\ gI' = gI + 1
  /\ gpc' = IF GotoLoopTest(gI + 1) THEN "attempt" ELSE "exhausted"
  /\ UNCHANGED <<gArgs, gLastError, gOutcomes, gResult>>
  /\ UNCHANGED notGoto

\* `throw lastError` after the loop
GotoThrows ==
  /\ gpc = "exhausted"
  /\ gResult' = <<"thrown", gLastError>>
  /\ gpc' = "thrown"
  /\ UNCHANGED <<gArgs, gI, gLastError, gOutcomes, gWaits>>
  /\ UNCHANGED notGoto

InitGoto == IdleHelpers /\ IdleRetry /\ IdleReporter /\ IdleFixture

NextGoto ==
  \/ GotoCall
  \/ GotoSucceeds
  \/ GotoFails
  \/ GotoWaitElapses
  \/ GotoThrows

SpecGoto == InitGoto /\ [][NextGoto]_vars

-----------------------------------------------------------------------------
(* Properties of the reporter *)

\* the report onEnd wrote
Html == reportFile.html

\* the number of recorded results with this status, counted from the list
Recorded_(status) ==
  Cardinality({i \in 1..Len(testResults) : testResults[i].result.status = status})

\* C1: once onEnd has written the report, the summary adds up: the total is
\* the sum of the passed, failed, skipped and flaky counters, whatever the
\* statuses of the recorded results.
C1_TotalIsSumOfCounters ==
  (variant = "enhanced" /\ reportFile.written) =>
     Html.totalTests =
       Html.passedTests + Html.failedTests + Html.skippedTests + Html.flakyTests

\* the value of a decimal digit
DigitValue(c) == CHOOSE d \in 0..9 : Digit(d) = c
IsDigit(c) == \E d \in 0..9 : Digit(d) = c

RECURSIVE ParseNat(_)
\* the number a sequence of digits denotes
ParseNat(digits) ==
  IF digits = <<>> THEN 0
  ELSE 10 * ParseNat(SubSeq(digits, 1, Len(digits) - 1)) + DigitValue(digits[Len(digits)])

\* a numeral with at most one digit after the point: digits, or digits "." digit
IsRate(text) ==
  /\ Len(text) >= 1
  /\ \/ \A i \in 1..Len(text) : IsDigit(text[i])
     \/ /\ Len(text) >= 3
        /\ text[Len(text) - 1] = "."
        /\ \A i \in 1..Len(text) : i # Len(text) - 1 => IsDigit(text[i])

\* the value of such a numeral, in tenths
RateTenths(text) ==
  IF Len(text) >= 3 /\ text[Len(text) - 1] = "."
    THEN 10 * ParseNat(SubSeq(text, 1, Len(text) - 2)) + DigitValue(text[Len(text)])
    ELSE 10 * ParseNat(text)

\* C9: the pass rate written in the report is a number between 0 and 100; for
\* an empty run it is 0; otherwise it has one decimal and is the tenth nearest
\* to passed / total * 100.
C9_PassRateIsRoundedPercentage ==
  reportFile.written =>
    LET total == Len(testResults)
        passed == Recorded_("passed")
        rate == RateTenths(Html.passRate)
    IN  /\ IsRate(Html.passRate)
        /\ rate \in 0..1000
        /\ total = 0 => rate = 0
        /\ total > 0 =>
             /\ Len(Html.passRate) >= 3 /\ Html.passRate[Len(Html.passRate) - 1] = "."
             /\ 2 * (1000 * passed - total * rate) <= total
             /\ 2 * (total * rate - 1000 * passed) <= total

\* C9 witness: two of three results passed and the report shows 66.7.
C9_Witness ==
  /\ reportFile.written
  /\ Len(testResults) = 3
  /\ Recorded_("passed") = 2
  /\ Html.passRate = <<"6", "6", ".", "7">>

\* the entities a browser decodes
Entities == {AmpEntity, LtEntity, GtEntity, QuotEntity, AposEntity}
EntityChar(e) ==
  CASE e = AmpEntity -> "&" [] e = LtEntity -> "<" [] e = GtEntity -> ">"
    [] e = QuotEntity -> "\"" [] e = AposEntity -> "'"
StartsWith(text, prefix) ==
  Len(text) >= Len(prefix) /\ SubSeq(text, 1, Len(prefix)) = prefix

RECURSIVE IsLiteralText(_)
\* text that a browser reads as characters only: no raw <, >, " or ', and every
\* & starts an entity
IsLiteralText(text) ==
  IF text = <<>> THEN TRUE
  ELSE IF Head(text) \in {"<", ">", "\"", "'"} THEN FALSE
  ELSE IF Head(text) = "&"
    THEN \E e \in Entities :
           StartsWith(text, e) /\ IsLiteralText(SubSeq(text, Len(e) + 1, Len(text)))
    ELSE IsLiteralText(Tail(text))

RECURSIVE Decoded(_)
\* the characters a browser shows for literal text
Decoded(text) ==
  IF text = <<>> THEN <<>>
  ELSE IF \E e \in Entities : StartsWith(text, e)
    THEN LET e == CHOOSE x \in Entities : StartsWith(text, x)
         IN  <<EntityChar(e)>> \o Decoded(SubSeq(text, Len(e) + 1, Len(text)))
    ELSE <<Head(text)>> \o Decoded(Tail(text))

\* `emitted` shows `original` as literal text
ShowsLiterally(emitted, original) ==
  IsLiteralText(emitted) /\ Decoded(emitted) = original

\* the entry of the report for the i-th recorded result shows that result
RendersResult(i) ==
  LET item == Html.items[i]
      r == testResults[i]
  IN  IF variant = "enhanced"
        THEN /\ item.dataStatus = r.result.status
             /\ Decoded(item.title) = r.test.title
             /\ item.retry = r.result.retry
        ELSE /\ item.class = r.result.status
             /\ item.title = r.test.title

\* C10: the recorded list only grows at its end: a step leaves it alone or
\* appends one entry, and every onTestEnd (one more line of the kind "test" on
\* the console) appends exactly one; the report counts and shows every entry
\* in the order of arrival, the failed attempt of a retried test included.
C10_AppendOnlyInArrivalOrder ==
  /\ [][/\ \/ testResults' = testResults
           \/ /\ Len(testResults') = Len(testResults) + 1
              /\ SubSeq(testResults', 1, Len(testResults)) = testResults
        /\ (Len(rconsole') = Len(rconsole) + 1 /\ rconsole'[Len(rconsole')][1] = "test")
             => /\ Len(testResults') = Len(testResults) + 1
                /\ testResults'[Len(testResults')].test.title = rconsole'[Len(rconsole')][3]
       ]_vars
  /\ [](reportFile.written =>
          /\ Html.totalTests = Len(testResults)
          /\ Len(Html.items) = Len(testResults)
          /\ \A i \in 1..Len(testResults) : RendersResult(i))

\* C10 witness: a test failed, then passed on its retry; the report counts two
\* results, one failed and one passed, and shows the failed one first.
C10_Witness ==
  /\ reportFile.written
  /\ Len(testResults) = 2
  /\ testResults[1].test.title = testResults[2].test.title
  /\ testResults[1].result.status = "failed" /\ testResults[1].result.retry = 0
  /\ testResults[2].result.status = "passed" /\ testResults[2].result.retry = 1
  /\ Html.totalTests = 2 /\ Html.failedTests = 1 /\ Html.passedTests = 1
  /\ RendersResult(1) /\ RendersResult(2)

\* C8: in the written report, whichever reporter wrote it, every test title
\* and every error message and stack appears as literal text showing exactly
\* the original string.
C8_TitlesAndErrorsAreEscaped ==
  reportFile.written =>
    \A i \in 1..Len(testResults) :
      /\ ShowsLiterally(Html.items[i].title, testResults[i].test.title)
      /\ (variant = "enhanced" /\ testResults[i].result.error.present) =>
           /\ ShowsLiterally(Html.items[i].errorMessage,
                             OrEmpty(testResults[i].result.error.message))
           /\ ShowsLiterally(Html.items[i].errorStack,
                             OrEmpty(testResults[i].result.error.stack))

\* (C8, the part the code satisfies: the enhanced reporter escapes them)
C8_EnhancedEscapes == variant = "enhanced" => C8_TitlesAndErrorsAreEscaped

C12_ThreeOutcomeRun ==
  (/\ reportFile.written
   /\ variant = "enhanced"
   /\ Len(testResults) = 3
   /\ {testResults[i] : i \in 1..3} = {PassedA, FailedB, SkippedC}) =>
     /\ Html.totalTests = 3
     /\ Html.passedTests = 1
     /\ Html.failedTests = 1
     /\ Html.skippedTests = 1
     /\ Html.flakyTests = 0
     /\ Html.passRate = <<"3", "3", ".", "3">>
     /\ \A i \in 1..3 :
          testResults[i] = FailedB =>
            /\ Html.items[i].class = "failed"
            /\ Html.items[i].hasError
            /\ Html.items[i].errorMessage = <<"b", "o", "o", "m">>
            /\ Html.items[i].duration = 200

\* C12 witness: the enhanced reporter wrote the report of the run A, B, C.
C12_Witness ==
  /\ reportFile.written
  /\ variant = "enhanced"
  /\ testResults = <<PassedA, FailedB, SkippedC>>
  /\ Html.passRate = <<"3", "3", ".", "3">>
  /\ Html.items[2].errorMessage = <<"b", "o", "o", "m">>

\* C15: in the report of the enhanced reporter every attachment of a result
\* is shown by its name, in order; it has a link exactly when its path is a
\* non-empty string, and then the href is that path, so no link has an empty
\* or undefined href; an attachment without path is shown by name only; and
\* a missing path never makes onEnd throw (only a failed write does, and a
\* report is written whenever onEnd did not throw).
C15_NoLinkWithoutPath ==
  /\ (rphase = "Done" /\ ~rthrown) => reportFile.written
  /\ (reportFile.written /\ variant = "enhanced") =>
       \A i \in 1..Len(testResults) :
         LET given == testResults[i].result.attachments
             shown == Html.items[i].attachments
         IN  /\ Html.items[i].hasAttachments <=> Len(given) > 0
             /\ Len(shown) = Len(given)
             /\ \A j \in 1..Len(given) :
                  /\ shown[j].name = given[j].name
                  /\ shown[j].link <=> (given[j].path.present /\ given[j].path.chars # <<>>)
                  /\ shown[j].link => (shown[j].href = given[j].path.chars /\ shown[j].href # <<>>)

\* C15 witness: the report shows a result with two attachments, the first
\* without path (name only), the second with a path (name and link).
C15_Witness ==
  /\ reportFile.written
  /\ variant = "enhanced"
  /\ Len(testResults) = 1
  /\ Len(testResults[1].result.attachments) = 2
  /\ ~testResults[1].result.attachments[1].path.present
  /\ ~Html.items[1].attachments[1].link
  /\ Html.items[1].attachments[1].name = testResults[1].result.attachments[1].name
  /\ Html.items[1].attachments[2].link
  /\ Html.items[1].attachments[2].href = <<"a">>

\* the console has the line 'Custom HTML report generated'
LoggedGenerated == \E i \in 1..Len(rconsole) : rconsole[i] = <<"generated">>

\* C17: when writing the report fails in onEnd, the failure leaves onEnd (it
\* throws) and the line 'Custom HTML report generated' is not printed; the
\* line is only ever printed after a write that succeeded.
C17_FailureLeavesOnEndUnlogged ==
  /\ (rphase = "Done" /\ ~reportFile.written) => (rthrown /\ ~LoggedGenerated)
  /\ LoggedGenerated => (rphase = "Done" /\ reportFile.written /\ ~rthrown)

\* C17 witness: onEnd of a run with two results failed to write the report:
\* it threw and printed nothing after the results' lines.
C17_Witness ==
  /\ rphase = "Done"
  /\ Len(testResults) = 2
  /\ ~reportFile.written
  /\ rthrown
  /\ rconsole[Len(rconsole)][1] = "test"

\* C18: the reporter goes from NotStarted to Collecting to Done and never
\* back; the report file changes only in onEnd (the step from Collecting to
\* Done), which writes it at most once in a run; results are only recorded
\* while Collecting; and the written report has one entry for each result
\* received before onEnd, in the order of arrival.
C18_ReportWrittenOnceByOnEnd ==
  /\ [][/\ rphase' # rphase =>
             <<rphase, rphase'>> \in {<<"NotStarted", "Collecting">>, <<"Collecting", "Done">>}
        /\ reportFile' # reportFile =>
             (rphase = "Collecting" /\ rphase' = "Done" /\ ~reportFile.written)
        /\ testResults' # testResults => (rphase = "Collecting" /\ rphase' = "Collecting")
       ]_vars
  /\ [](reportFile.written =>
          /\ rphase = "Done"
          /\ Len(Html.items) = Len(testResults)
          /\ \A i \in 1..Len(testResults) : RendersResult(i))

\* C18 witness: onEnd wrote the report of a run of three results with three
\* different statuses, in their order of arrival.
C18_Witness ==
  /\ rphase = "Done"
  /\ reportFile.written
  /\ Len(testResults) = 3
  /\ testResults[1].result.status = "skipped"
  /\ testResults[2].result.status = "timedOut"
  /\ testResults[3].result.status = "passed"
  /\ \A i \in 1..3 : RendersResult(i)

\* C25: in the report of the enhanced reporter every attachment name appears
\* as literal text showing the name, and every attachment path as an href
\* value showing the path.
C25_AttachmentsAreEscaped ==
  (reportFile.written /\ variant = "enhanced") =>
     \A i \in 1..Len(testResults) :
       \A j \in 1..Len(testResults[i].result.attachments) :
         LET given == testResults[i].result.attachments[j]
             shown == Html.items[i].attachments[j]
         IN  /\ ShowsLiterally(shown.name, given.name)
             /\ shown.link => ShowsLiterally(shown.href, given.path.chars)

\* the number of entries of the report shown with this class
Rendered(class) ==
  Cardinality({i \in 1..Len(Html.items) : Html.items[i].class = class})

\* C27: in the report of the enhanced reporter, as many entries are shown
\* with class passed, failed and skipped as the counters of these names say;
\* a result with any other status is shown with class flaky, whereas the
\* Flaky counter counts the results whose status is 'flaky'; so the number of
\* entries shown as flaky is the total minus passed, failed and skipped.
C27_ClassesAgainstCounters ==
  (reportFile.written /\ variant = "enhanced") =>
     /\ Rendered("passed") = Html.passedTests
     /\ Rendered("failed") = Html.failedTests
     /\ Rendered("skipped") = Html.skippedTests
     /\ \A i \in 1..Len(testResults) :
          Html.items[i].class =
            IF testResults[i].result.status \in {"passed", "failed", "skipped"}
              THEN testResults[i].result.status ELSE "flaky"
     /\ Html.flakyTests = Recorded_("flaky")
     /\ Rendered("flaky") =
          Html.totalTests - Html.passedTests - Html.failedTests - Html.skippedTests

\* C27 witness: a run of a passed, a timed out and an interrupted test: two
\* entries are shown as flaky and the Flaky counter is 0.
C27_Witness ==
  /\ reportFile.written
  /\ variant = "enhanced"
  /\ Len(testResults) = 3
  /\ testResults[1].result.status = "passed"
  /\ testResults[2].result.status = "timedOut"
  /\ testResults[3].result.status = "interrupted"
  /\ Rendered("flaky") = 2
  /\ Html.flakyTests = 0

-----------------------------------------------------------------------------
(* Properties of createFailureReport and of the page fixture *)

\* the failure reports on disk
FailureReports == {i \in 1..Len(files) : files[i].kind = "failure-report"}

\* step `step` of the call was attempted
Attempted(step) == \E i \in 1..Len(capture.steps) : capture.steps[i][1] = step
\* step `step` of the call was attempted and failed
FailedStep(step) == \E i \in 1..Len(capture.steps) : capture.steps[i] = <<step, FALSE>>
\* the console has an entry of this level about this subject
Printed(level, subject) ==
  \E i \in 1..Len(capture.console) : capture.console[i] = <<level, subject>>

\* C4: a call of createFailureReport with a closed page, where nothing but the
\* page fails, resolves and leaves a failure report on disk whose
\* artifacts.screenshot is empty.
C4_ClosedPageStillReports ==
  (capture.called /\ ~capture.pageOpen /\ capture.fails \cap {"mkdir", "write", "attach"} = {}) =>
     /\ ~capture.rejected
     /\ \E i \in FailureReports :
          \/ files[i].content.artifacts.screenshot = EmptyString
          \/ files[i].content.artifacts.screenshot = Null

\* C5: whatever steps fail, createFailureReport attempts each of its capture
\* steps (screenshot, trace stop, browser information where the variant has
\* it, report write), and a failing step is printed as a warning.
C5_StepsAreIndependent ==
  capture.called =>
    \A step \in StepsOf(uvariant) \ {"mkdir", "attach"} :
      /\ Attempted(step)
      /\ FailedStep(step) => Printed("warn", step)

\* C6: createFailureReport never rejects, whatever fails: the promise resolves,
\* every step that failed is on the console (the step's warning, or the error
\* of the outer catch block), and nothing is attempted after a failure that
\* reached the outer catch block.
C6_NeverRejects ==
  capture.called =>
    /\ ~capture.rejected
    /\ \A step \in CaptureSteps :
         FailedStep(step) =>
           \/ Printed("warn", step)
           \/ /\ Printed("error", "failure report")
              /\ capture.steps[Len(capture.steps)] = <<step, FALSE>>

\* C6 witness: the report could not be written (the fourth step of a call
\* that took the screenshot), and the call resolved.
C6_Witness ==
  /\ capture.called
  /\ "write" \in capture.fails
  /\ FailedStep("write")
  /\ Attempted("screenshot")
  /\ ~capture.rejected

\* C7: when the test body threw, the fixture ends with the body's error,
\* whatever failed during the teardown.
C7_TestErrorIsNotMasked ==
  (fpc = "done" /\ testError = "TestError") => fOutcome = "TestError"

\* the test body ran and the fixture is over
FixtureOver == fpc = "done" /\ fOutcome # "MkdirError"

\* nothing failed on the disk during the call of createFailureReport
DiskWorked == capture.fails \cap {"mkdir", "write", "attach"} = {}

\* C13: a failing test execution through the page fixture (status failed, or
\* a body that threw) leaves exactly one failure report on disk when the disk
\* works.
C13_OneReportPerFailingExecution ==
  (FixtureOver /\ ShouldReport) =>
     /\ capture.called
     /\ DiskWorked => Cardinality(FailureReports) = 1

\* the console entries of the teardown: those after the entry of the setup
TeardownTrail == SubSeq(fconsole, 2, Len(fconsole))

\* C14: the teardown runs in every test execution that reached the test body,
\* whether `use` returned or threw and whatever the status (timedOut too): the
\* stop of the trace is attempted first, the failure report is created exactly when the test
\* failed or the body threw, the result is logged and the summary is saved
\* (or its write fails, which ends the fixture); and until the fixture is over
\* its next step can always be taken.
C14_TeardownAlwaysRuns ==
  /\ fpc # "done" => ENABLED NextFixture
  /\ FixtureOver =>
       /\ Len(TeardownTrail) >= 2
       /\ TeardownTrail[1] \in {<<"log", "trace">>, <<"warn", "trace">>}
       /\ capture.called <=> ShouldReport
       /\ \E i \in 2..Len(TeardownTrail) : TeardownTrail[i] = <<"log", "result">>
       /\ \/ /\ fOutcome = "WriteError"
             /\ TeardownTrail[Len(TeardownTrail)] = <<"log", "result">>
          \/ /\ fOutcome \in {"resolved", "TestError"}
             /\ TeardownTrail[Len(TeardownTrail)] = <<"log", "summary">>
             /\ files[Len(files)].kind = "summary"
             /\ files[Len(files)].content.status = testInfo.status

\* C14 witness: a test that timed out and whose body threw went through the
\* whole teardown: trace stopped and written, failure report attempted,
\* result logged, summary saved.
C14_Witness ==
  /\ FixtureOver
  /\ testInfo.status = "timedOut"
  /\ testError = "TestError"
  /\ TeardownTrail[1] = <<"log", "trace">>
  /\ capture.called
  /\ files[Len(files)].kind = "summary"

\* the keys of a JSON object (`type` is the model's tag of the kind of value)
Keys(object) == DOMAIN object \ {"type"}

\* C16: every failure report on disk has the keys testInfo, error, artifacts
\* and timestamp, and possibly browserInfo; its testInfo has the keys title,
\* file, status, duration, retry and project; its artifacts has the keys
\* screenshot and trace; and its error is null exactly when no error was
\* passed, else an object with the keys message, stack and name.
C16_FailureReportSchema ==
  \A i \in FailureReports :
    LET report == files[i].content
    IN  /\ {"testInfo", "error", "artifacts", "timestamp"} \subseteq Keys(report)
        /\ Keys(report) \subseteq {"testInfo", "error", "artifacts", "timestamp", "browserInfo"}
        /\ Keys(report.testInfo) = {"title", "file", "status", "duration", "retry", "project"}
        /\ Keys(report.artifacts) = {"screenshot", "trace"}
        /\ report.error = Null <=> capture.error = "none"
        /\ report.error # Null => Keys(report.error) = {"message", "stack", "name"}

\* (C16, the part both variants satisfy: everything but the keys of testInfo)
C16_SchemaButTestInfo ==
  \A i \in FailureReports :
    LET report == files[i].content
    IN  /\ {"testInfo", "error", "artifacts", "timestamp"} \subseteq Keys(report)
        /\ Keys(report) \subseteq {"testInfo", "error", "artifacts", "timestamp", "browserInfo"}
        /\ uvariant = "core" =>
             Keys(report.testInfo) = {"title", "file", "status", "duration", "retry", "project"}
        /\ Keys(report.artifacts) = {"screenshot", "trace"}
        /\ report.error = Null <=> capture.error = "none"
        /\ report.error # Null => Keys(report.error) = {"message", "stack", "name"}

\* the traces stopTraceRecording flushed in the teardown
FlushedTraces ==
  {i \in 1..Len(files) : files[i].kind = "trace" /\ files[i].path[2] = "trace"}

\* C19: in the teardown of a failed test whose trace recording was started and
\* flushed and whose page is open, with nothing else failing,
\* createFailureReport pushes the attachment 'failure-screenshot' and then
\* 'failure-trace', each with the path of a file on disk, and the report's
\* artifacts.trace is the path of a trace on disk.
C19_FailedTestAttachesScreenshotAndTrace ==
  (/\ capture.called
   /\ testInfo.status = "failed"
   /\ capture.pageOpen
   /\ FlushedTraces # {}
   /\ capture.fails \subseteq {"trace"}) =>
     /\ Len(testInfo.attachments) = 2
     /\ testInfo.attachments[1].name = "failure-screenshot"
     /\ testInfo.attachments[2].name = "failure-trace"
     /\ \A j \in 1..2 : \E i \in 1..Len(files) : files[i].path = testInfo.attachments[j].path
     /\ \A r \in FailureReports :
          \E i \in 1..Len(files) :
            files[i].kind = "trace" /\ files[i].path = files[r].content.artifacts.trace

\* the position of the first entry `entry` of the teardown's console, or 0
FirstPrinted(entry) ==
  IF \E i \in 1..Len(TeardownTrail) : TeardownTrail[i] = entry
    THEN CHOOSE i \in 1..Len(TeardownTrail) :
           /\ TeardownTrail[i] = entry
           /\ \A k \in 1..(i - 1) : TeardownTrail[k] # entry
    ELSE 0

\* C26: the page fixture calls createFailureReport exactly when, at teardown,
\* the status is 'failed' or the body threw: never for a test that ended
\* 'passed' or 'skipped' without throwing, and for 'timedOut' or
\* 'interrupted' only when the body threw; and the call comes after
\* stopTraceRecording and before logTestResult and saveTestExecutionSummary.
C26_ReportIffFailedOrThrew ==
  /\ capture.called =>
       /\ fpc \in {"log", "done"}
       /\ testInfo.status = "failed" \/ testError = "TestError"
       /\ TeardownTrail[1] \in {<<"log", "trace">>, <<"warn", "trace">>}
       /\ TeardownTrail[2] = <<"log", "failure report">>
       /\ FirstPrinted(<<"log", "result">>) \in {0} \cup (3..Len(TeardownTrail))
       /\ FirstPrinted(<<"log", "summary">>) \in {0} \cup (3..Len(TeardownTrail))
  /\ (fpc \in {"log", "done"} /\ fOutcome # "MkdirError") =>
       (capture.called <=> (testInfo.status = "failed" \/ testError = "TestError"))

\* C26 witness: a test that timed out without throwing through the fixture
\* went through the teardown without a failure report.
C26_Witness ==
  /\ FixtureOver
  /\ testInfo.status = "timedOut"
  /\ testError = "none"
  /\ ~capture.called
  /\ FirstPrinted(<<"log", "result">>) = 2

\* C24: two artifacts written by different workers never have the same
\* path, whatever their tests' titles and the instants of the captures.
C24_WorkersNeverShareAPath ==
  \A i, j \in 1..Len(files) :
    (fpc = "workers" /\ files[i].worker # files[j].worker) =>
       files[i].path # files[j].path

\* the traces on disk
Traces == {i \in 1..Len(files) : files[i].kind = "trace"}

\* C22 as stated: stopTraceRecording never throws; it returns the path of the
\* written trace when a recording was active and stopped, and null when no
\* recording was active.
C22_StopReturnsPathOrNull ==
  traceStop.called =>
    /\ ~traceStop.threw
    /\ traceStop.stops =>
         \E i \in Traces : files[i].path = traceStop.returned
    /\ ~traceStop.wasActive => traceStop.returned = Null

\* C22, amended: stopTraceRecording never throws; it returns the path of the
\* written trace when a recording was active and stopped; when tracing.stop
\* fails (no recording was active, or the trace could not be written) it
\* writes nothing and returns null in the core variant and the empty string
\* in the enhanced one.
C22_StopReturnsPathOrFalsy ==
  traceStop.called =>
    /\ ~traceStop.threw
    /\ traceStop.stops =>
         /\ traceStop.wasActive
         /\ ~traceActive
         /\ \E i \in Traces : files[i].path = traceStop.returned
    /\ ~traceStop.wasActive => ~traceStop.stops
    /\ ~traceStop.stops =>
         /\ Traces = {}
         /\ traceStop.returned = IF uvariant = "core" THEN Null ELSE EmptyString
         /\ traceActive = traceStop.wasActive

\* C22 witness: the enhanced stopTraceRecording was called with no recording
\* active, after a start that failed, and returned the empty string.
C22_Witness ==
  /\ traceStop.called
  /\ uvariant = "enhanced"
  /\ fpc = "trace"
  /\ ~traceStop.wasActive
  /\ fconsole[1] = <<"warn", "trace start">>
  /\ ~traceStop.threw
  /\ traceStop.returned = EmptyString

-----------------------------------------------------------------------------
(* Properties of waitWithRetry *)

IsError(o) == o[1] = "error"
IsValue(o) == o[1] = "value"
AllFailed == \A j \in 1..Len(wOutcomes) : IsError(wOutcomes[j])
\* the attempt count the caller asked for: the argument, or 3 when omitted
RequestedAttempts == IF wArgs.maxRetries.given THEN wArgs.maxRetries.value ELSE 3

\* C2: with n = maxRetries >= 1 (3 when the argument is omitted) and an
\* operation that fails on every attempt, the operation is invoked exactly n
\* times (never more while the call runs), and the call then rejects with the
\* error of the n-th attempt, whatever the earlier attempts threw.
C2_AlwaysFailingRejectsWithLastError ==
  (wpc # "idle" /\ RequestedAttempts >= 1 /\ AllFailed) =>
     /\ Len(wOutcomes) <= RequestedAttempts
     /\ wpc # "returned"
     /\ wpc \in {"exhausted", "thrown"} => Len(wOutcomes) = RequestedAttempts
     /\ wpc = "thrown" => wResult = <<"thrown", wOutcomes[RequestedAttempts]>>

\* C2 witness: a default call whose three attempts all failed, the first and
\* the last with different errors, has rejected.
C2_Witness ==
  /\ wpc = "thrown"
  /\ ~wArgs.maxRetries.given
  /\ Len(wOutcomes) = 3
  /\ AllFailed
  /\ wOutcomes[1][3] # wOutcomes[3][3]

\* C3: a successful attempt is the last invocation of the operation: it is
\* attempt k <= maxRetries, the call has returned that attempt's value, every
\* earlier attempt failed and nothing was thrown.
C3_FirstSuccessIsReturned ==
  \A k \in 1..Len(wOutcomes) :
    IsValue(wOutcomes[k]) =>
      /\ k = Len(wOutcomes)
      /\ k <= RequestedAttempts
      /\ \A j \in 1..(k - 1) : IsError(wOutcomes[j])
      /\ wpc = "returned"
      /\ wResult = <<"returned", wOutcomes[k]>>

\* C3 witness: the operation failed twice and succeeded on the third attempt.
C3_Witness ==
  /\ wpc = "returned"
  /\ Len(wOutcomes) = 3
  /\ IsError(wOutcomes[1]) /\ IsError(wOutcomes[2])
  /\ wResult = <<"returned", OpValue(3)>>

\* the delay the caller asked for: the argument, or 1000 ms when omitted
RequestedDelay == IF wArgs.retryDelay.given THEN wArgs.retryDelay.value ELSE 1000

\* C20: the attempts of one call run one after the other with one wait of the
\* fixed retryDelay between two of them: an attempt is only running when every
\* earlier attempt has failed and as many waits as failures have elapsed; a
\* wait is only running after a failure that is not the last attempt; every
\* wait lasts retryDelay; and a call that ended after m >= 1 attempts waited
\* exactly m - 1 times, so nothing is waited after the final attempt.
C20_OneFixedWaitBetweenAttempts ==
  /\ \A j \in 1..Len(wWaits) : wWaits[j] = RequestedDelay
  /\ wpc = "attempt" => (AllFailed /\ Len(wWaits) = Len(wOutcomes))
  /\ wpc = "delay" =>
       /\ AllFailed
       /\ Len(wWaits) = Len(wOutcomes) - 1
       /\ Len(wOutcomes) < RequestedAttempts
  /\ (wpc \in {"returned", "exhausted", "thrown"} /\ Len(wOutcomes) >= 1) =>
       Len(wWaits) = Len(wOutcomes) - 1
  /\ Len(wOutcomes) = 0 => Len(wWaits) = 0

\* C20 witness: a call with retryDelay 250 whose four attempts all failed has
\* rejected after three waits of 250 ms.
C20_Witness ==
  /\ wpc = "thrown"
  /\ Len(wOutcomes) = 4
  /\ AllFailed
  /\ wWaits = <<250, 250, 250>>

\* C30: a call with maxRetries <= 0 never invokes the operation and never
\* waits; it goes straight to `throw lastError` and rejects with undefined,
\* the value lastError was declared with.
C30_NoAttemptRejectsWithUndefined ==
  (wpc # "idle" /\ RequestedAttempts <= 0) =>
     /\ wOutcomes = <<>>
     /\ wWaits = <<>>
     /\ wpc \in {"exhausted", "thrown"}
     /\ wLastError = Undefined
     /\ wpc = "thrown" => wResult = <<"thrown", Undefined>>

\* C30 witness: a call with maxRetries -1 has rejected with undefined without
\* an attempt.
C30_Witness ==
  /\ wpc = "thrown"
  /\ wArgs.maxRetries = Given(-1)
  /\ wOutcomes = <<>>
  /\ wResult = <<"thrown", Undefined>>

-----------------------------------------------------------------------------
(* Properties of the page.goto wrapper *)

\* two to the power n
RECURSIVE Pow2(_)
Pow2(n) == IF n = 0 THEN 1 ELSE 2 * Pow2(n - 1)

\* C21: the wrapper attempts the navigation at most 3 times; a success is
\* the last attempt and its value is returned; after 3 failures the error of
\* the last one is thrown; and the wait after the i-th failed attempt lasts
\* 1000 * 2^(i-1) ms.
C21_ExponentialBackoff ==
  /\ Len(gOutcomes) <= 3
  /\ \A k \in 1..Len(gOutcomes) :
       IsValue(gOutcomes[k]) =>
         (k = Len(gOutcomes) /\ gpc = "returned" /\ gResult = <<"returned", gOutcomes[k]>>)
  /\ gpc = "thrown" => (Len(gOutcomes) = 3 /\ gResult = <<"thrown", gOutcomes[3]>>)
  /\ \A i \in 1..Len(gWaits) : gWaits[i] = 1000 * Pow2(i - 1)

\* (C21, what the code does: the wait after the i-th failure lasts 1000 * i
\* ms, and the third failure is followed by a wait too)
C21_LinearBackoff ==
  /\ Len(gOutcomes) <= 3
  /\ \A k \in 1..Len(gOutcomes) :
       IsValue(gOutcomes[k]) =>
         (k = Len(gOutcomes) /\ gpc = "returned" /\ gResult = <<"returned", gOutcomes[k]>>)
  /\ gpc = "thrown" => (Len(gOutcomes) = 3 /\ gResult = <<"thrown", gOutcomes[3]>>)
  /\ \A i \in 1..Len(gWaits) : gWaits[i] = 1000 * i
  /\ gpc \in {"exhausted", "thrown"} => Len(gWaits) = 3

-----------------------------------------------------------------------------
(* Properties of the console and network listeners *)

\* the events of one kind that arrived, in order of arrival
Arrived(kind) == SelectSeq(lArrived, LAMBDA e : e.event = kind)

\* the writes of a log file attempted
WritesOf(kind) == {i \in 1..Len(lfiles) : lfiles[i].kind = kind}

\* every write attempted worked
LogDiskWorked == \A i \in 1..Len(lfiles) : lfiles[i].ok

\* the handler that saves the log has run
SavePassed(kind) ==
  IF kind = "console" /\ uvariant = "core"
  THEN lpc \in {"closed", "exited"}
  ELSE lpc = "exited"

\* the entries accumulated for a log
EntriesOf(kind) == IF kind = "console" THEN logs ELSE requests

\* logs holds the console messages and requests the requests in their order
\* of arrival; a log file is only ever written with all the entries
\* accumulated, under logs/ with the sanitized title; once the saving handler
\* has run, a log with an entry was written if the disk worked, and a log
\* without entries is never written.
AccumulatedAndSaved ==
  /\ Len(logs) = Len(Arrived("console"))
  /\ \A k \in 1..Len(logs) :
       /\ logs[k].text = Arrived("console")[k].body
       /\ logs[k].timestamp = ToISOString(Arrived("console")[k].at)
  /\ Len(requests) = Len(Arrived("request"))
  /\ \A k \in 1..Len(requests) :
       /\ requests[k].url = Arrived("request")[k].body
       /\ requests[k].timestamp = ToISOString(Arrived("request")[k].at)
  /\ \A i \in 1..Len(lfiles) :
       /\ lfiles[i].content = EntriesOf(lfiles[i].kind)
       /\ lfiles[i].content # <<>>
       /\ lfiles[i].path[1] = "logs"
       /\ lfiles[i].path[2] = lfiles[i].kind
       /\ lfiles[i].path[3] = Sanitized(testInfo.title)
       /\ lfiles[i].path[5] = (IF lfiles[i].kind = "console" THEN ".log" ELSE ".json")
  /\ \A kind \in {"console", "network"} :
       /\ Cardinality(WritesOf(kind)) <= 1
       /\ (SavePassed(kind) /\ LogDiskWorked /\ EntriesOf(kind) # <<>>) =>
            WritesOf(kind) # {}
       /\ ~SavePassed(kind) => WritesOf(kind) = {}

\* C23: console messages and requests are accumulated in their order of
\* arrival, and a log with at least one entry is eventually saved with all
\* its entries (when the page closes in the core ReportUtils, when the
\* process exits in the enhanced one, the disk working); a log without
\* entries is never written.
C23_AccumulatedThenFlushed ==
  /\ []AccumulatedAndSaved
  /\ \A kind \in {"console", "network"} :
       (EntriesOf(kind) # <<>>) ~> SavePassed(kind)

\* both logs have entries and were saved at the exit of the process
C23_Witness ==
  /\ lpc = "exited"
  /\ Len(logs) >= 2
  /\ requests # <<>>
  /\ WritesOf("console") # {}
  /\ WritesOf("network") # {}
  /\ LogDiskWorked

\* the place in lArrived of the k-th request recorded
PlaceOfRequest(k) ==
  CHOOSE p \in 1..Len(lArrived) :
    /\ lArrived[p].event = "request"
    /\ Cardinality({q \in 1..p : lArrived[q].event = "request"}) = k

\* the responses for the URL of the k-th request that arrived after it
ResponsesAfter(k) ==
  {p \in (PlaceOfRequest(k) + 1)..Len(lArrived) :
     lArrived[p].event = "response" /\ lArrived[p].body = requests[k].url}

\* the k-th request is the first one recorded with its URL
FirstWithUrl(k) == \A j \in 1..(k - 1) : requests[j].url # requests[k].url

\* the greatest of a set of places
Greatest(places) == CHOOSE p \in places : \A q \in places : q <= p

\* C28: requests holds the requests in their order of arrival; the first
\* request recorded with a URL carries the last response that arrived for
\* that URL after it, every other request carries none, and a response
\* that arrived before any request with its URL is nowhere.
C28_ResponseGoesToFirstRequest ==
  /\ Len(requests) = Len(Arrived("request"))
  /\ \A k \in 1..Len(requests) :
       /\ requests[k].url = Arrived("request")[k].body
       /\ requests[k].method = Arrived("request")[k].label
       /\ requests[k].response =
            IF FirstWithUrl(k) /\ ResponsesAfter(k) # {}
            THEN [received |-> TRUE,
                  status |-> lArrived[Greatest(ResponsesAfter(k))].label]
            ELSE NoResponse

\* two requests to one URL were recorded and answered: the first carries a
\* response, the second none
C28_Witness ==
  /\ Len(requests) = 2
  /\ requests[1].url = requests[2].url
  /\ Len(lArrived) = 3
  /\ lArrived[3].event = "response"
  /\ lArrived[3].body = requests[2].url
  /\ requests[1].response.received
  /\ ~requests[2].response.received

-----------------------------------------------------------------------------
(* Properties of waitForElementStable *)

\* the positions sampled, in order: the polls that gave a box
Samples == SelectSeq(sPolls, LAMBDA poll : poll.outcome = "box")

\* the k-th sample is less than one pixel, in x and in y, from the one before
Stable(k) ==
  /\ k >= 2
  /\ Abs(Samples[k].position.x - Samples[k - 1].position.x) < 2
  /\ Abs(Samples[k].position.y - Samples[k - 1].position.y) < 2

\* how many of the last samples were stable, one after the other
StableRun ==
  LET n == Len(Samples)
      run == {c \in 0..n : \A k \in (n - c + 1)..n : Stable(k)}
  IN  CHOOSE c \in run : \A d \in run : d <= c

\* C29: stableCount is the number of the last samples that were each less
\* than one pixel from the sample before (a sample that moved makes it 0, a
\* poll without a box or that threw leaves it as it is); the call returns
\* only when that is 3, hence after 4 samples at least, in a poll begun
\* before the timeout; it throws 'Element did not stabilize within
\* <timeout>ms' only once the timeout has elapsed with fewer than 3.
C29_ReturnsAfterThreeStablePolls ==
  /\ stableCount = StableRun
  /\ spc = "returned" <=> stableCount >= RequiredStableChecks
  /\ spc = "returned" =>
       /\ sResult = <<"returned">>
       /\ stableCount = 3
       /\ Len(Samples) >= 4
       /\ \A k \in (Len(Samples) - 2)..Len(Samples) : Stable(k)
       /\ sPolls[Len(sPolls)].outcome = "box"
       /\ sElapsed < sTimeout
  /\ spc = "thrown" =>
       /\ sResult = <<"thrown", "Element did not stabilize within ", sTimeout, "ms">>
       /\ sElapsed >= sTimeout
       /\ stableCount < 3
  /\ (spc = "test" /\ sElapsed >= sTimeout) => ENABLED StableTimesOut

\* the call returned after four samples, a poll between them finding no box
\* or throwing
C29_Witness ==
  /\ spc = "returned"
  /\ \E k \in 1..Len(sPolls) : sPolls[k].outcome # "box"
  /\ Len(Samples) = 4

=============================================================================
